---- MODULE Spec2Model ----
(***************************************************************************)
(* Release cleanup for a Helm chart repository (kubedoop-helm-charts).     *)
(*                                                                         *)
(* Two Go implementations are modelled side by side:                       *)
(*   impl = "releaser" : chart-releaser/ (command `cleanup`)               *)
(*   impl = "root"     : main.go, index.go, chart.go, git.go               *)
(*                       (commands `delete-release` and `delete-all`)      *)
(* together with the change grouping of the shell script delete-release.sh.*)
(***************************************************************************)
EXTENDS Integers, Sequences, FiniteSets, TLC

VARIABLES
    pc,              \* position of the run
    impl,            \* "releaser" | "root"
    cmd,             \* "changed" (DeleteChanged) | "all" (cleanup --all, delete-all) |
                     \* "deleteall" (ReleaseManager.DeleteAllReleases)
    force,           \* delete-all --force
    withTags,        \* delete-all --with-tags
    cleanIndex,      \* delete-all --clean-index
    answer,          \* what the user types at the confirmation prompt
    token,           \* the API token environment variable ("" when unset)
    parentTag,       \* what git describe --tags --abbrev=0 HEAD~ finds ("" when it fails)
    sinceCommit,     \* the diff baseline getLatestTag resolved
    tagsFetched,     \* outcome of git fetch --tags: "none" | "ok" | "failed"
    pulled,          \* outcome of git pull on the pages branch: "none" | "ok" | "failed"
    gitUsed,         \* a git command has been run
    chartDir,        \* configured chart directory, as path segments
    versionPattern,  \* configured version pattern
    changedFiles,    \* output of git diff --name-only, each a path of segments
    manifests,       \* candidate directory -> what Chart.yaml holds there
    pending,         \* chartDirs map keys not yet visited by the range loop
    changedCharts,   \* []*ChartInfo built by getChangedCharts
    releases,        \* delete-all: the releases listed by GetAllReleases
    next,            \* index of the next item of the delete loop
    hostReleases,    \* release tag names present on the host
    apiLog,          \* hosting-API requests issued, in order
    attempted,       \* release names the delete loops called their delete function for
    switches,        \* checkouts of the pages branch in this run
    loads,           \* reads of index.yaml for cleaning in this run
    matched,         \* the last application of versionMatchesPattern, for SpecMatch
    head,            \* what is checked out: a branch name or Detached
    entryHead,       \* head at the time the index wrapper was entered
    OriginalBranch,  \* IndexManager.OriginalBranch
    remoteHasPages,  \* the pages branch exists on the remote
    pagesFile,       \* index.yaml in the work tree of the pages branch
    pagesCommitted,  \* index.yaml in the tip commit of the local pages branch
    remotePages,     \* index.yaml in the tip commit of the remote pages branch
    indexFile,       \* the loaded index document
    removedCharts,   \* root: removedCharts of CleanMultipleChartIndexes
    commits,         \* commit messages made on the pages branch, in order
    writes,          \* number of writes of index.yaml
    ret,             \* "ok" | "error": what the index wrapper is about to return
    restored,        \* "none" | "ok" | "failed": the checkout back to OriginalBranch
    failed,          \* some external call (git, hosting API, file system) has failed
    result,          \* "running" | "ok" | "error": what the command returns
    before,          \* document before the last index operation
    lastOp,          \* last index operation applied: "none" | "versions" | "all"
    lastCharts,      \* chart list of the last removeVersions
    reps,            \* consecutive removeVersions calls with the same chart list
    steps,           \* index operations applied so far
    doc0,            \* the document the run started from
    hostList,        \* the releases of the repository, in the order the host lists them
    page,            \* GetAllReleases: opts.Page
    allReleases,     \* GetAllReleases: allReleases
    requested,       \* the pages ListReleases was called for, in order
    returned,        \* what GetAllReleases returned
    delTag,          \* DeleteReleaseAndTag: the tag it was called with
    tagAnswer,       \* what the host answered to GetReleaseByTag: "none" | "found" | a status
    tagErr,          \* err.Error() of the failed GetReleaseByTag, as words
    calls,           \* the GHClient methods DeleteReleaseAndTag has entered, in order
    tagRet           \* "none" | "ok" | "error": what DeleteReleaseAndTag returned

vars == <<pc, impl, cmd, force, withTags, cleanIndex, answer, token, parentTag, sinceCommit,
          tagsFetched, pulled, gitUsed, chartDir, versionPattern, changedFiles, manifests, pending,
          changedCharts, releases, next, hostReleases, apiLog, attempted, switches, loads, matched, head,
          entryHead,
          OriginalBranch,
          remoteHasPages, pagesFile, pagesCommitted, remotePages, indexFile,
          removedCharts, commits, writes, ret, restored, failed, result, before, lastOp, lastCharts,
          reps, steps, doc0, hostList, page, allReleases, requested, returned,
          delTag, tagAnswer, tagErr, calls, tagRet>>

-----------------------------------------------------------------------------
(* Bounds of the model *)

\* longest version list of a chart in an index document
MaxLen == 2
\* longest chart list handed to removeVersions in the document-level specification
MaxCharts == 2
\* number of index operations applied in a row in the document-level specification
MaxApply == 2
\* longest list of changed files in the grouping specification
MaxFiles == 3
\* most releases the host holds in the listing model
MaxReleases == 5

-----------------------------------------------------------------------------
(* Data *)

Names == {"foo", "bar"}
DevVersion == "0.0.0-dev"
Versions == {DevVersion, "1.0.0"}

Null == [kind |-> "null"]
NoFile == [kind |-> "nofile"]

\* ChartVersion {name, version, urls}
Entry(n, v) == [name |-> n, version |-> v, urls |-> <<"https://host", n, v>>]

\* ChartInfo {Path, Name, Version}
ChartInfo(p, n, v) == [path |-> p, name |-> n, version |-> v]

SeqsUpTo(S, k) == UNION {[1..m -> S] : m \in 0..k}

NoEntries == [n \in {} |-> <<>>]

\* the versions the index can hold of a chart name: one more than the chart
\* lists name for foo
IndexVersions(n) == IF n = "foo" THEN Versions \cup {"2.0.0"} ELSE {DevVersion}

\* version lists of one chart name
VersionLists(n) == SeqsUpTo({Entry(n, v) : v \in IndexVersions(n)}, MaxLen)

EntryMaps == UNION {{f \in [S -> UNION {VersionLists(n) : n \in S}] :
                        \A n \in S : f[n] \in VersionLists(n)} : S \in SUBSET Names}

IndexDoc(e) == [apiVersion |-> "v1", generated |-> "2024-01-01T00:00:00Z", entries |-> e]

HasEmptyList(doc) == \E n \in DOMAIN doc.entries : Len(doc.entries[n]) = 0

ChartNames(charts) == {charts[i].name : i \in DOMAIN charts}

\* chart lists handed to removeVersions in the document-level specification
ChartLists ==
    SeqsUpTo({ChartInfo(<<"charts", "foo">>, "foo", v) : v \in Versions}
                \cup {ChartInfo(<<"charts", "bar">>, "bar", DevVersion)},
             MaxCharts)

-----------------------------------------------------------------------------
(* IndexStore: the entry removal of both implementations *)

\* mutation: the filter stops at the first entry of the target version
FilterFirstOnly(list, v) ==
    IF \E k \in DOMAIN list : list[k].version = v
    THEN LET k == CHOOSE j \in DOMAIN list :
                    /\ list[j].version = v
                    /\ \A h \in 1..(j - 1) : list[h].version # v
         IN  SubSeq(list, 1, k - 1) \o SubSeq(list, k + 1, Len(list))
    ELSE list

RECURSIVE Reverse(_)
Reverse(list) == IF list = <<>> THEN <<>> ELSE Append(Reverse(Tail(list)), Head(list))

\* mutation: the kept entries are stored in reverse order
FilterVersionsReversed(list, v) == Reverse(SelectSeq(list, LAMBDA e : e.version # v))

\* the inner loop that keeps every entry whose version differs from the target
FilterVersions(list, v) == SelectSeq(list, LAMBDA e : e.version # v)

\* mutation: the whole map is cleared instead of one key
DeleteKeyWipes(entries, n) == [k \in {} |-> <<>>]

\* Go's delete(m, key)
DeleteKey(entries, n) == [k \in DOMAIN entries \ {n} |-> entries[k]]

\* one iteration of the loop of IndexManager.CleanEntriesVersions
CleanEntry(entries, chart) ==
    IF chart.name \notin DOMAIN entries
    THEN entries
    ELSE LET filteredVersions == FilterVersions(entries[chart.name], chart.version)
         IN  IF Len(filteredVersions) = 0
             THEN DeleteKey(entries, chart.name)
             ELSE [entries EXCEPT ![chart.name] = filteredVersions]

RECURSIVE CleanEntriesLoop(_, _)
CleanEntriesLoop(entries, charts) ==
    IF charts = <<>> THEN entries
    ELSE CleanEntriesLoop(CleanEntry(entries, Head(charts)), Tail(charts))

\* fmt.Sprintf("%s v%s", chartName, chartVersion)
RemovedLabel(chart) == <<chart.name, "v", chart.version>>

\* one iteration of the loop of ChartIndexManager.CleanMultipleChartIndexes;
\* st = [entries, removed]
RootCleanEntry(st, chart) ==
    IF chart.name \in DOMAIN st.entries
    THEN LET chartVersions == st.entries[chart.name]
             filteredVersions == FilterVersions(chartVersions, chart.version)
         IN  IF Len(filteredVersions) # Len(chartVersions)
             THEN [entries |-> IF Len(filteredVersions) = 0
                               THEN DeleteKey(st.entries, chart.name)
                               ELSE [st.entries EXCEPT ![chart.name] = filteredVersions],
                   removed |-> Append(st.removed, RemovedLabel(chart))]
             ELSE st
    ELSE st

RECURSIVE RootCleanLoop(_, _)
RootCleanLoop(st, charts) ==
    IF charts = <<>> THEN st
    ELSE RootCleanLoop(RootCleanEntry(st, Head(charts)), Tail(charts))

\* removeVersions on the loaded document, per implementation
RemoveVersions(i, doc, charts) ==
    [doc EXCEPT !.entries =
        IF i = "releaser"
        THEN CleanEntriesLoop(doc.entries, charts)
        ELSE RootCleanLoop([entries |-> doc.entries, removed |-> <<>>], charts).entries]

\* mutation: the entries are left in place
RemoveAllKeeps(doc) == doc

\* removeAll on the loaded document: Entries = make(map...)
RemoveAll(doc) == [doc EXCEPT !.entries = NoEntries]

-----------------------------------------------------------------------------
(* Configuration and inputs of the command runs *)

PagesBranch == "gh-pages"
BaseBranch == "main"
Detached == "(detached)"
\* no branch recorded: the zero value of IndexManager.OriginalBranch
NoBranch == ""

\* os.Getenv("GITHUB_TOKEN") of an unset or empty variable
NoToken == ""

\* git describe finds no tag
NoTag == ""
\* git rev-list --max-parents=0 --first-parent HEAD
FirstCommit == "first-commit"
\* git merge-base HEAD <baseBranch>
MergeBase == "merge-base"

\* version patterns: "^0\.0\.0-dev$", ".*" and one that does not compile
DevPattern == "^0\\.0\\.0-dev$"
AnyPattern == ".*"
BadPattern == "("
Patterns == {DevPattern, AnyPattern, BadPattern}

DirA == <<"charts", "a">>
DirB == <<"charts", "b">>

Missing == [kind |-> "missing"]
Unreadable == [kind |-> "unreadable"]
Manifest(n, v) == [kind |-> "chart", name |-> n, version |-> v]

\* what Chart.yaml holds in each changed directory
ManifestChoices ==
    {[d \in {DirA, DirB} |-> IF d = DirA THEN ma ELSE mb] :
        ma \in {Missing, Unreadable, Manifest("foo", DevVersion), Manifest("foo", "1.0.0")},
        mb \in {Missing, Manifest("bar", DevVersion), Manifest("bar", "1.0.0")}}

ManifestAt(d) == IF d \in DOMAIN manifests THEN manifests[d] ELSE Missing

\* git diff --name-only <since> -- charts
DiffChoices ==
    { <<>>,
      << <<"charts", "a", "Chart.yaml">> >>,
      << <<"charts", "a", "Chart.yaml">>, <<"charts", "a", "values.yaml">>,
         <<"charts", "b", "README.md">> >> }

\* fmt.Sprintf("%s-%s", chart.Name, chart.Version)
ReleaseName(chart) == <<chart.name, "-", chart.version>>

HostChoices ==
    { {},
      {ReleaseName(ChartInfo(DirA, "foo", v)) : v \in Versions}
        \cup {ReleaseName(ChartInfo(DirB, "bar", DevVersion))} }

\* a release without a tag name
DraftRelease == <<"draft">>

\* release.GetTagName(): the empty string for a release without a tag
TagName(r) == IF r = DraftRelease THEN <<>> ELSE r

\* mutation: the tag is deleted whatever the flag
TagWantedAlways(flag, tag) == tag # <<>>

\* withTags && release.GetTagName() != ""
TagWanted(flag, tag) == flag /\ tag # <<>>

\* releases on the host when delete-all runs
ListedChoices ==
    { {},
      {ReleaseName(ChartInfo(DirA, "foo", DevVersion))},
      {ReleaseName(ChartInfo(DirA, "foo", DevVersion)), DraftRelease} }

\* the orders in which the host can list a set of releases
Listings(S) == {l \in [1..Cardinality(S) -> S] : \A a, b \in DOMAIN l : l[a] = l[b] => a = b}

File(doc, form) == [kind |-> "file", doc |-> doc, form |-> form]

\* yaml.Marshal / IndexFile.WriteFile: the bytes written are the marshalled form
Marshal(doc) == File(doc, "marshalled")

\* index documents found on the pages branch
PagesDocs ==
    { IndexDoc(NoEntries),
      IndexDoc([n \in {"foo"} |-> <<Entry("foo", DevVersion)>>]),
      IndexDoc([n \in {"foo", "bar"} |->
                  IF n = "foo" THEN <<Entry("foo", DevVersion), Entry("foo", "1.0.0")>>
                  ELSE <<Entry("bar", DevVersion)>>]),
      IndexDoc([n \in {"foo"} |-> <<>>]) }

PagesFiles == {NoFile} \cup {File(d, f) : d \in PagesDocs, f \in {"found", "marshalled"}}

-----------------------------------------------------------------------------
(* ChartScanner *)

\* filepath.Clean followed by strings.Split on the separator: "." segments go
Clean(path) == SelectSeq(path, LAMBDA seg : seg # ".")

\* the candidate directory one changed file contributes in getChangedCharts:
\* pathParts[0] is compared with the chart directory string, which a single
\* path segment equals only when the chart directory is one segment long
ChartDirOf(filePath, dir) ==
    LET pathParts == Clean(filePath)
    IN  IF Len(pathParts) >= 2 /\ dir = <<pathParts[1]>>
        THEN {dir \o <<pathParts[2]>>}
        ELSE {}

\* keys of the chartDirs map of getChangedCharts / GetChangedCharts
ChartDirs(files, dir) == UNION {ChartDirOf(files[i], dir) : i \in DOMAIN files}

IsPrefix(dir, path) == Len(path) >= Len(dir) /\ SubSeq(path, 1, Len(dir)) = dir

\* delete-release.sh lookup_changed_charts: git diff restricted to the chart
\* directory, then cut -d/ -f 1-depth | uniq | sort -u
ShellChartDirs(files, dir) ==
    LET depth == Len(SelectSeq(dir, LAMBDA seg : seg \notin {"", ".", ".."})) + 1
        changed_files == SelectSeq(files, LAMBDA f : IsPrefix(dir, f))
    IN  {SubSeq(changed_files[i], 1, IF Len(changed_files[i]) < depth
                                     THEN Len(changed_files[i]) ELSE depth) :
            i \in DOMAIN changed_files}

\* the characters of the strings of the model
Chars(str) ==
    CASE str = "" -> <<>>
      [] str = "0.0.0-dev" -> <<"0", ".", "0", ".", "0", "-", "d", "e", "v">>
      [] str = "1.0.0" -> <<"1", ".", "0", ".", "0">>
      [] str = "1.2.3" -> <<"1", ".", "2", ".", "3">>
      [] str = "0.0.0-rc1" -> <<"0", ".", "0", ".", "0", "-", "r", "c", "1">>
      [] str = "10.0.0-dev" -> <<"1", "0", ".", "0", ".", "0", "-", "d", "e", "v">>
      [] str = "0a0b0-dev" -> <<"0", "a", "0", "b", "0", "-", "d", "e", "v">>
      [] str = "1.0.0-dev" -> <<"1", ".", "0", ".", "0", "-", "d", "e", "v">>
      [] str = "0.0.0-dev.1" -> <<"0", ".", "0", ".", "0", "-", "d", "e", "v", ".", "1">>
      [] str = "^0\\.0\\.0-dev$" ->
            <<"^", "0", "\\", ".", "0", "\\", ".", "0", "-", "d", "e", "v", "$">>
      [] str = ".*" -> <<".", "*">>
      [] str = "(" -> <<"(">>
      [] str = "^0\\.0\\.0-.*$" ->
            <<"^", "0", "\\", ".", "0", "\\", ".", "0", "-", ".", "*", "$">>
      [] str = "^.*-dev$" -> <<"^", ".", "*", "-", "d", "e", "v", "$">>
      [] str = "0\\.0\\.0-dev" -> <<"0", "\\", ".", "0", "\\", ".", "0", "-", "d", "e", "v">>
      [] str = "^0.0.0-dev$" -> <<"^", "0", ".", "0", ".", "0", "-", "d", "e", "v", "$">>
      [] str = "*dev" -> <<"*", "d", "e", "v">>
      [] str = "^0\\.0\\.0-dev" -> <<"^", "0", "\\", ".", "0", "\\", ".", "0", "-", "d", "e", "v">>
      [] str = "1.404.0" -> <<"1", ".", "4", "0", "4", ".", "0">>
      [] str = "404" -> <<"4", "0", "4">>
      [] str = "401" -> <<"4", "0", "1">>
      [] str = "403" -> <<"4", "0", "3">>
      [] str = "500" -> <<"5", "0", "0">>
      [] str = "GET" -> <<"G", "E", "T">>
      [] str = "foo" -> <<"f", "o", "o">>
      [] str = "bar" -> <<"b", "a", "r">>
      [] str = "-" -> <<"-">>
      [] str = "timeout" -> <<"t", "i", "m", "e", "o", "u", "t">>
      [] str = "/releases/tags/" ->
            <<"/", "r", "e", "l", "e", "a", "s", "e", "s", "/", "t", "a", "g", "s", "/">>

Drop(seq, k) == SubSeq(seq, k + 1, Len(seq))

Count(seq, c) == Cardinality({k \in DOMAIN seq : seq[k] = c})

\* regexp.Compile fails: a parenthesis that is not closed, a repetition operator
\* with nothing to repeat, a trailing backslash
CompileError(re) ==
    \/ Count(re, "(") # Count(re, ")")
    \/ (re # <<>> /\ re[1] = "*")
    \/ (re # <<>> /\ re[Len(re)] = "\\" /\ (Len(re) = 1 \/ re[Len(re) - 1] # "\\"))

\* the width of the first atom of a pattern: an escaped character or one character
AtomWidth(re) == IF re[1] = "\\" THEN 2 ELSE 1

\* the first atom of the pattern matches the character
AtomMatches(re, ch) ==
    IF re[1] = "\\" THEN re[2] = ch
    ELSE IF re[1] = "." THEN TRUE
    ELSE re[1] = ch

RECURSIVE MatchHere(_, _)
\* the pattern matches at the beginning of the text
MatchHere(re, text) ==
    IF re = <<>> THEN TRUE
    ELSE IF re = <<"$">> THEN text = <<>>
    ELSE LET rest == Drop(re, AtomWidth(re))
         IN  IF rest # <<>> /\ rest[1] = "*"
             THEN \E k \in 0..Len(text) :
                     /\ \A j \in 1..k : AtomMatches(re, text[j])
                     /\ MatchHere(Tail(rest), Drop(text, k))
             ELSE /\ text # <<>>
                  /\ AtomMatches(re, text[1])
                  /\ MatchHere(rest, Tail(text))

\* Regexp.MatchString: the text contains a match of the pattern
Match(re, text) ==
    IF re # <<>> /\ re[1] = "^"
    THEN MatchHere(Tail(re), text)
    ELSE \E k \in 0..Len(text) : MatchHere(re, Drop(text, k))

\* regexp.Compile(pattern) returns an error
CompileFails(pattern) == CompileError(Chars(pattern))

\* mutation: the pattern has to match the whole version
MatchStringWhole(pattern, version) ==
    LET re == Chars(pattern)
        body == IF re # <<>> /\ re[1] = "^" THEN Tail(re) ELSE re
    IN  MatchHere(IF body # <<>> /\ body[Len(body)] = "$" THEN body ELSE Append(body, "$"),
                  Chars(version))

\* regex.MatchString(version)
MatchString(pattern, version) == Match(Chars(pattern), Chars(version))

\* versionMatchesPattern: (matches, err)
VersionMatchesPattern(version, pattern) ==
    IF CompileFails(pattern) THEN [matches |-> FALSE, err |-> TRUE]
    ELSE [matches |-> MatchString(pattern, version), err |-> FALSE]

\* mutation: a chart whose version does not match is skipped
ScanOutcomeSkipsMismatch(m, pattern) ==
    IF m.kind \in {"missing", "unreadable"} THEN "skip"
    ELSE LET r == VersionMatchesPattern(m.version, pattern)
         IN  IF r.err THEN "error"
             ELSE IF ~r.matches THEN "skip"
             ELSE "append"

\* mutation: a Chart.yaml that cannot be read ends the scan with the error
ScanOutcomeUnreadableFails(m, pattern) ==
    IF m.kind = "missing" THEN "skip"
    ELSE IF m.kind = "unreadable" THEN "error"
    ELSE LET r == VersionMatchesPattern(m.version, pattern)
         IN  IF r.err \/ ~r.matches THEN "error" ELSE "append"

\* body of the range loop of getChangedCharts for one candidate directory
ScanOutcome(m, pattern) ==
    IF m.kind = "missing" THEN "skip"
    ELSE IF m.kind = "unreadable" THEN "skip"
    ELSE LET r == VersionMatchesPattern(m.version, pattern)
         IN  IF r.err THEN "error"
             ELSE IF ~r.matches THEN "error"
             ELSE "append"

-----------------------------------------------------------------------------
(* ReleaseClient; st = [host, log] is the host's releases and the requests issued *)

Request(st, kind, tag) == [st EXCEPT !.log = Append(st.log, <<kind, tag>>)]

\* GHClient.DeleteRelease: the API call is commented out, nothing is requested
DeleteRelease(st, tag) == st

\* GHClient.DeleteTag: the API call is commented out, nothing is requested
DeleteTag(st, tag) == st

\* GHClient.DeleteReleaseByTag; lookup is the answer to GetReleaseByTag
DeleteReleaseByTag(st, tag, lookup) ==
    LET asked == Request(st, "GetReleaseByTag", tag)
    IN  IF lookup = "error" THEN [st |-> asked, err |-> TRUE]
        ELSE IF lookup = "404" THEN [st |-> asked, err |-> FALSE]
        ELSE [st |-> DeleteRelease(asked, tag), err |-> FALSE]

\* GHClient.DeleteReleaseAndTag
DeleteReleaseAndTag(st, tag, lookup) ==
    LET r == DeleteReleaseByTag(st, tag, lookup)
    IN  IF r.err THEN r ELSE [st |-> DeleteTag(r.st, tag), err |-> FALSE]

\* mutation: the loop is left at the first failed deletion
LoopAfterBreaks(i, n, err) == IF err THEN n + 1 ELSE i + 1

\* the index of the next item of a range loop whose body logs the error of the
\* deletion and goes on
LoopAfter(i, n, err) == i + 1

\* answers the host can give to GetReleaseByTag
Lookups(host, tag) == (IF tag \in host THEN {"found"} ELSE {"404"}) \cup {"error"}

\* ChartReleaseManager.DeleteReleaseByTag of the root implementation
ManagerDeleteReleaseByTag(st, tag, ok) ==
    LET asked == Request(st, "DeleteRelease", tag)
    IN  IF ok THEN [asked EXCEPT !.host = @ \ {tag}] ELSE asked

\* mutation: the token is not looked at
TokenIgnored(tok) == TRUE

\* cleanupChartIndex: os.Getenv("GITHUB_TOKEN") is not the empty string
TokenSet(tok) == tok # NoToken

\* ChartReleaseManager.CheckAuthentication of the root implementation: logged in
\* with the host's CLI, or the token variable is set
ManagerCheckAuthentication(loggedIn, tok) == loggedIn \/ tok # NoToken

\* ChartReleaseManager.DeleteRelease (by id) of the root implementation
ManagerDeleteRelease(st, r, ok) ==
    LET asked == Request(st, "DeleteRelease", r)
    IN  IF ok THEN [asked EXCEPT !.host = @ \ {r}] ELSE asked

\* the prompt is answered by the end of the input
EndOfInput == "<eof>"

\* mutation: every answer confirms
ConfirmActionAlways(input) == TRUE

\* fmt.Scanln(&response), its error dropped: at the end of the input the
\* response stays empty
Scanln(input) == IF input = EndOfInput THEN "" ELSE input

\* confirmAction: the response is y or Y
ConfirmAction(input) == LET response == Scanln(input) IN response = "y" \/ response = "Y"

\* delete-all-releases.sh: [[ $REPLY =~ ^[Yy]$ ]]
ReplyConfirms(reply) == reply \in {"y", "Y"}

\* ChartReleaseManager.DeleteTag of the root implementation
ManagerDeleteTag(st, tag, ok) == Request(st, "DeleteTag", tag)

-----------------------------------------------------------------------------
(* GitFacade *)

\* git rev-parse --abbrev-ref HEAD
GetCurrentBranch(h) == IF h = Detached THEN "HEAD" ELSE h

\* git checkout <branch>, when it succeeds: checkout HEAD moves nothing
CheckoutBranch(h, branch) == IF branch = "HEAD" THEN h ELSE branch

\* mutation: the merge-base is used although the branch is the base branch
LatestTagMergeBase(currentBranch, baseBranch, described) ==
    IF described # NoTag THEN described ELSE MergeBase

\* Git.getLatestTag after GetCurrentBranch: the described tag, else the first
\* commit on the base branch, else the merge-base
LatestTag(currentBranch, baseBranch, described) ==
    IF described # NoTag THEN described
    ELSE IF currentBranch = baseBranch THEN FirstCommit
    ELSE MergeBase

\* mutation: a failed pull ends the wrapper
AfterPullAborts(ok) == IF ok THEN "check_index" ELSE "wrapper_return"

\* the step after g.fetchTags() in getLatestTag: the error is not looked at
AfterFetchTags(ok) == "current_branch"

\* the step after PullBranch in preparePagesBranch: the error is only logged
AfterPull(ok) == "check_index"

\* mutation: index.yaml always counts as changed
HasChangesAlways(file, committed) == TRUE

\* Git.HasChanges: git diff --quiet index.yaml
HasChanges(file, committed) == file # committed

\* mutation: the restore checks out the pages branch
RestoreTargetPages(orig) == "gh-pages"

\* the branch restoreOriginalBranch checks out
RestoreTarget(orig) == orig

-----------------------------------------------------------------------------
(* Commit messages, as word sequences *)

\* commit message of IndexManager.CleanEntriesVersions
ReleaserVersionsMessage ==
    <<"Removed", "specified", "chart", "versions", "from", "index.yaml">>

\* commit message of IndexManager.CleanAllEntries
ReleaserAllMessage == <<"Cleaned", "all", "chart", "entries", "from", "index.yaml">>

\* commit message of ChartIndexManager.CleanMultipleChartIndexes
RootVersionsMessage(removed) ==
    IF Len(removed) = 1
    THEN <<"Remove">> \o removed[1] \o <<"from", "index">>
    ELSE <<"Remove", ToString(Len(removed)), "chart", "versions", "from", "index">>

\* commit message of ChartIndexManager.CleanAllChartIndex
RootAllMessage == <<"Clear", "all", "chart", "entries", "from", "index">>

CommitMessage(i, c, removed) ==
    IF c # "changed" THEN (IF i = "releaser" THEN ReleaserAllMessage ELSE RootAllMessage)
    ELSE IF i = "releaser" THEN ReleaserVersionsMessage
    ELSE RootVersionsMessage(removed)

Mentions(msg, word) == \E k \in DOMAIN msg : msg[k] = word

-----------------------------------------------------------------------------
(* Command runs *)

inputV == <<impl, cmd, force, withTags, cleanIndex, answer, token, parentTag, chartDir, versionPattern, changedFiles, manifests,
            remoteHasPages, doc0>>
docV   == <<before, lastOp, lastCharts, reps, steps>>
hostV  == <<hostReleases, apiLog, attempted>>
gitV   == <<head, entryHead, OriginalBranch, restored, pulled, gitUsed>>
baseV  == <<sinceCommit, tagsFetched>>
fileV  == <<pagesFile, pagesCommitted, remotePages, commits, writes>>
pagesV == <<fileV, switches, loads>>
scanV  == <<pending, changedCharts, releases, next>>
memV   == <<indexFile, removedCharts, ret>>
listV  == <<hostList, page, allReleases, requested, returned>>

tagV   == <<delTag, tagAnswer, tagErr, calls, tagRet>>

\* DeleteReleaseAndTag is not followed call by call
NoTagCall ==
    /\ delTag = <<>> /\ tagAnswer = "none" /\ tagErr = <<>> /\ calls = <<>> /\ tagRet = "none"

\* GetAllReleases has not been called and the run does not page through releases
NotListed == [releases |-> <<>>, err |-> FALSE]
NoListing ==
    /\ hostList = <<>> /\ page = 0 /\ allReleases = <<>> /\ requested = <<>>
    /\ returned = NotListed

\* the commands of the two binaries, and delete-all-releases.sh
Commands == {<<"releaser", "changed">>, <<"releaser", "all">>, <<"releaser", "deleteall">>,
             <<"root", "changed">>, <<"root", "all">>, <<"shell", "all">>}

\* the cleanup --all command of chart-releaser
CleanAll == impl = "releaser" /\ cmd = "all"

\* mutation: --all is not looked at
CleanupEntryDetects(cleanAllIndex) == "latest_tag"

\* cleanupChartIndex after the token gate: CleanAllEntries with --all, else
\* DeleteChangedCharts
CleanupEntry(cleanAllIndex) == IF cleanAllIndex THEN "prepare" ELSE "latest_tag"

\* the delete-all command of the root binary
DeleteAll == impl = "root" /\ cmd = "all"

\* ReleaseManager.DeleteAllReleases of chart-releaser
ManagerDeleteAll == impl = "releaser" /\ cmd = "deleteall"

\* delete-all-releases.sh
ShellDeleteAll == impl = "shell" /\ cmd = "all"


Init ==
    /\ pc = "start"
    /\ \E c \in Commands : impl = c[1] /\ cmd = c[2]
    /\ chartDir = <<"charts">>
    /\ versionPattern \in (IF cmd = "changed" \/ CleanAll THEN Patterns ELSE {DevPattern})
    /\ changedFiles \in (IF cmd = "changed" THEN DiffChoices ELSE {<<>>})
    /\ manifests \in (IF cmd = "changed" /\ changedFiles # <<>> THEN ManifestChoices
                      ELSE {[d \in {DirA, DirB} |-> Missing]})
    /\ hostReleases \in (IF cmd = "changed" \/ CleanAll THEN HostChoices
                         ELSE IF DeleteAll \/ ManagerDeleteAll \/ ShellDeleteAll
                         THEN ListedChoices ELSE {{}})
    /\ force \in (IF DeleteAll \/ ShellDeleteAll THEN BOOLEAN ELSE {FALSE})
    /\ withTags \in (IF DeleteAll \/ ShellDeleteAll THEN BOOLEAN ELSE {FALSE})
    /\ cleanIndex \in (IF DeleteAll THEN BOOLEAN ELSE {FALSE})
    /\ answer \in (IF (DeleteAll \/ ShellDeleteAll) /\ ~force THEN {"y", "Y", "n", EndOfInput}
                   ELSE {""})
    /\ token \in (IF ManagerDeleteAll THEN {"ghp_token"} ELSE {NoToken, "ghp_token"})
    /\ parentTag \in (IF cmd = "changed" THEN {NoTag, "v1.0.0"} ELSE {NoTag})
    /\ sinceCommit = "" /\ tagsFetched = "none" /\ pulled = "none" /\ gitUsed = FALSE
    /\ head \in {BaseBranch, "feature", Detached}
    /\ remoteHasPages \in BOOLEAN
    /\ pagesFile \in (IF remoteHasPages THEN PagesFiles ELSE {NoFile})
    /\ pagesCommitted = pagesFile
    /\ remotePages = pagesFile
    /\ pending = {} /\ changedCharts = <<>> /\ releases = <<>> /\ next = 1
    /\ apiLog = <<>> /\ attempted = <<>>
    /\ entryHead = NoBranch /\ OriginalBranch = "" /\ restored = "none"
    /\ indexFile = Null /\ removedCharts = <<>> /\ ret = "ok"
    /\ commits = <<>> /\ writes = 0 /\ switches = 0 /\ loads = 0
    /\ failed = FALSE /\ result = "running"
    /\ before = Null /\ lastOp = "none" /\ lastCharts = <<>> /\ reps = 0 /\ steps = 0
    /\ doc0 = Null /\ matched = Null
    /\ NoListing /\ NoTagCall

\* cleanupChartIndex / deleteSpecificReleases / deleteAllReleases up to the
\* first git or host call: the token or authentication gate, then the dispatch
Start ==
    /\ pc = "start"
    /\ \E loggedIn \in BOOLEAN :
         LET authenticated == IF impl = "releaser" THEN TokenSet(token)
                              ELSE ManagerCheckAuthentication(loggedIn, token)
         IN  IF ~authenticated
             THEN pc' = "done" /\ result' = "error" /\ failed' = TRUE
             ELSE /\ pc' = IF DeleteAll \/ ManagerDeleteAll \/ ShellDeleteAll
                           THEN "list_releases"
                           ELSE CleanupEntry(cmd = "all")
                  /\ UNCHANGED <<result, failed>>
    /\ UNCHANGED <<inputV, matched, listV, tagV, baseV, docV, hostV, gitV, pagesV, scanV, memV>>

\* Git.fetchTags as called by getLatestTag: the error is logged and dropped
FetchTags ==
    /\ pc = "latest_tag"
    /\ gitUsed' = TRUE
    /\ \E fetchOk \in BOOLEAN :
         /\ tagsFetched' = IF fetchOk THEN "ok" ELSE "failed"
         /\ failed' = (failed \/ ~fetchOk)
         /\ pc' = AfterFetchTags(fetchOk)
    /\ UNCHANGED <<inputV, matched, listV, tagV, sinceCommit, docV, hostV, head, entryHead, OriginalBranch,
                   restored, pulled, pagesV, scanV, memV, result>>

\* Git.getLatestTag after fetchTags: GetCurrentBranch, describe, and the
\* commit-based fallbacks
GetLatestTag ==
    /\ pc = "current_branch"
    /\ \E branchOk \in BOOLEAN, refOk \in BOOLEAN :
         /\ (~branchOk \/ parentTag # NoTag) => refOk
         /\ IF branchOk /\ refOk
            THEN /\ sinceCommit' = LatestTag(GetCurrentBranch(head), BaseBranch, parentTag)
                 /\ pc' = "changed_files"
                 /\ UNCHANGED <<result, failed>>
            ELSE /\ pc' = "done" /\ result' = "error" /\ failed' = TRUE
                 /\ UNCHANGED sinceCommit
    /\ UNCHANGED <<inputV, matched, listV, tagV, tagsFetched, docV, hostV, gitV, pagesV, scanV, memV>>

\* Git.GetChangedFiles: the diff against the baseline
GetChangedFiles ==
    /\ pc = "changed_files"
    /\ \E ok \in BOOLEAN :
         IF ~ok
         THEN /\ pc' = "done" /\ result' = "error" /\ failed' = TRUE
         ELSE IF changedFiles = <<>> /\ impl = "releaser"
         THEN /\ pc' = "done" /\ result' = "ok" /\ UNCHANGED failed
         ELSE /\ pc' = "group" /\ UNCHANGED <<result, failed>>
    /\ UNCHANGED <<inputV, matched, listV, tagV, baseV, docV, hostV, gitV, pagesV, scanV, memV>>

\* getChangedCharts, first loop: the chartDirs map
GroupChangedFiles ==
    /\ pc = "group"
    /\ impl # "shell"
    /\ pending' = ChartDirs(changedFiles, chartDir)
    /\ pc' = "scan"
    /\ UNCHANGED <<inputV, matched, listV, tagV, baseV, docV, hostV, gitV, pagesV, changedCharts, releases, next,
                   memV, failed, result>>

\* getChangedCharts, second loop: one iteration, in map order
ScanChart ==
    /\ pc = "scan"
    /\ \E d \in pending :
         LET m == ManifestAt(d)
             outcome == ScanOutcome(m, versionPattern)
         IN  /\ pending' = pending \ {d}
             /\ IF outcome = "error"
                THEN /\ pc' = "done" /\ result' = "error"
                     /\ UNCHANGED changedCharts
                ELSE /\ UNCHANGED <<pc, result>>
                     /\ changedCharts' =
                          IF outcome = "append"
                          THEN Append(changedCharts, ChartInfo(d, m.name, m.version))
                          ELSE changedCharts
    /\ UNCHANGED <<inputV, matched, listV, tagV, baseV, docV, hostV, gitV, pagesV, releases, next, memV, failed>>

\* getChangedCharts returns; DeleteChangedCharts stops when no chart is left
ScanDone ==
    /\ pc = "scan"
    /\ pending = {}
    /\ IF changedCharts = <<>>
       THEN pc' = "done" /\ result' = "ok"
       ELSE pc' = "delete" /\ UNCHANGED result
    /\ UNCHANGED <<inputV, matched, listV, tagV, baseV, docV, hostV, gitV, pagesV, scanV, memV, failed>>

\* DeleteChangedCharts: one iteration of the release loop
DeleteChartRelease ==
    /\ pc = "delete"
    /\ impl = "releaser"
    /\ next <= Len(changedCharts)
    /\ LET releaseName == ReleaseName(changedCharts[next])
       IN  \E lookup \in Lookups(hostReleases, releaseName) :
             LET r == DeleteReleaseAndTag([host |-> hostReleases, log |-> apiLog],
                                          releaseName, lookup)
             IN  /\ hostReleases' = r.st.host
                 /\ apiLog' = r.st.log
                 /\ attempted' = Append(attempted, releaseName)
                 /\ failed' = (failed \/ r.err)
                 /\ next' = LoopAfter(next, Len(changedCharts), r.err)
    /\ UNCHANGED <<pc, inputV, matched, listV, tagV, baseV, docV, gitV, pagesV, pending, changedCharts, releases,
                   memV, result>>

\* deleteSpecificReleases: one iteration of the release loop
DeleteChartReleaseRoot ==
    /\ pc = "delete"
    /\ impl = "root"
    /\ next <= Len(changedCharts)
    /\ LET releaseName == ReleaseName(changedCharts[next])
       IN  \E okRelease \in BOOLEAN, okTag \in BOOLEAN :
             LET r == ManagerDeleteTag(
                        ManagerDeleteReleaseByTag([host |-> hostReleases, log |-> apiLog],
                                                  releaseName, okRelease),
                        releaseName, okTag)
             IN  /\ hostReleases' = r.host
                 /\ apiLog' = r.log
                 /\ attempted' = Append(attempted, releaseName)
                 /\ failed' = (failed \/ ~okRelease \/ ~okTag)
                 /\ next' = LoopAfter(next, Len(changedCharts), ~okRelease \/ ~okTag)
    /\ UNCHANGED <<pc, inputV, matched, listV, tagV, baseV, docV, gitV, pagesV, pending, changedCharts, releases,
                   memV, result>>

\* the release loop is over: the index cleanup follows
DeleteDone ==
    /\ pc = "delete"
    /\ cmd = "changed"
    /\ next > Len(changedCharts)
    /\ pc' = "prepare"
    /\ UNCHANGED <<inputV, matched, listV, tagV, baseV, docV, hostV, gitV, pagesV, scanV, memV, failed, result>>

\* deleteAllReleases up to the release loop: listing, the empty-list stop and
\* the confirmation
ListReleases ==
    /\ pc = "list_releases"
    /\ DeleteAll
    /\ \E outcome \in {"listfail", "listed"} :
         IF outcome # "listed"
         THEN /\ pc' = "done" /\ result' = "error" /\ failed' = TRUE
              /\ UNCHANGED releases
         ELSE /\ \E l \in Listings(hostReleases) : releases' = l
              /\ UNCHANGED failed
              /\ IF Len(releases') = 0
                 THEN pc' = "done" /\ result' = "ok"
                 ELSE IF ~force /\ ~ConfirmAction(answer)
                 THEN pc' = "done" /\ result' = "ok"
                 ELSE pc' = "delete" /\ UNCHANGED result
    /\ UNCHANGED <<inputV, matched, listV, tagV, baseV, docV, hostV, gitV, pagesV, pending, changedCharts, next, memV>>

\* deleteAllReleases: one iteration of the release loop
DeleteListedRelease ==
    /\ pc = "delete"
    /\ DeleteAll
    /\ next <= Len(releases)
    /\ LET release == releases[next]
           tagged == TagWanted(withTags, TagName(release))
       IN  \E okRelease \in BOOLEAN, okTag \in BOOLEAN :
             LET deleted == ManagerDeleteRelease([host |-> hostReleases, log |-> apiLog],
                                                 release, okRelease)
                 r == IF tagged THEN ManagerDeleteTag(deleted, TagName(release), okTag)
                      ELSE deleted
             IN  /\ ~tagged => okTag
                 /\ hostReleases' = r.host
                 /\ apiLog' = r.log
                 /\ attempted' = Append(attempted, release)
                 /\ failed' = (failed \/ ~okRelease \/ ~okTag)
                 /\ next' = LoopAfter(next, Len(releases), ~okRelease \/ ~okTag)
    /\ UNCHANGED <<pc, inputV, matched, listV, tagV, baseV, docV, gitV, pagesV, pending, changedCharts, releases,
                   memV, result>>

\* deleteAllReleases after the loop: the index is wiped only with --clean-index
DeleteAllDone ==
    /\ pc = "delete"
    /\ DeleteAll
    /\ next > Len(releases)
    /\ IF cleanIndex
       THEN pc' = "prepare" /\ UNCHANGED result
       ELSE pc' = "done" /\ result' = "ok"
    /\ UNCHANGED <<inputV, matched, listV, tagV, baseV, docV, hostV, gitV, pagesV, scanV, memV, failed>>

\* delete-all-releases.sh main up to the loop: the listing, the empty-list exit
\* and the confirmation; a failing listing, or a read at the end of the input,
\* ends the script
ShellListReleases ==
    /\ pc = "list_releases"
    /\ ShellDeleteAll
    /\ \E outcome \in {"listfail", "listed"} :
         /\ IF outcome = "listfail"
            THEN /\ pc' = "done" /\ result' = "error" /\ failed' = TRUE
                 /\ UNCHANGED releases
            ELSE /\ \E l \in Listings(hostReleases) : releases' = l
                 /\ IF Len(releases') = 0
                    THEN pc' = "done" /\ result' = "ok" /\ UNCHANGED failed
                    ELSE IF ~force /\ answer = EndOfInput
                    THEN pc' = "done" /\ result' = "error" /\ failed' = TRUE
                    ELSE IF ~force /\ ~ReplyConfirms(answer)
                    THEN pc' = "done" /\ result' = "ok" /\ UNCHANGED failed
                    ELSE pc' = "delete" /\ UNCHANGED <<result, failed>>
    /\ UNCHANGED <<inputV, matched, listV, tagV, baseV, docV, hostV, gitV, pagesV, pending, changedCharts,
                   next, memV>>

\* delete-all-releases.sh delete_release: one iteration of the loop; a failed
\* release deletion ends the script, a failed tag deletion is only reported
ShellDeleteRelease ==
    /\ pc = "delete"
    /\ ShellDeleteAll
    /\ next <= Len(releases)
    /\ LET release == releases[next]
           tagged == TagWanted(withTags, TagName(release))
       IN  \E okRelease \in BOOLEAN :
             LET deleted == ManagerDeleteRelease([host |-> hostReleases, log |-> apiLog],
                                                 release, okRelease)
                 r == IF okRelease /\ tagged
                      THEN Request(deleted, "DeleteTag", TagName(release))
                      ELSE deleted
             IN  /\ hostReleases' = r.host
                 /\ apiLog' = r.log
                 /\ attempted' = Append(attempted, release)
                 /\ IF okRelease
                    THEN next' = next + 1 /\ UNCHANGED <<pc, result, failed>>
                    ELSE /\ pc' = "done" /\ result' = "error" /\ failed' = TRUE
                         /\ UNCHANGED next
    /\ UNCHANGED <<inputV, matched, listV, tagV, baseV, docV, gitV, pagesV, pending, changedCharts, releases,
                   memV>>

\* delete-all-releases.sh: the loop is over; the index is not touched
ShellDeleteAllDone ==
    /\ pc = "delete"
    /\ ShellDeleteAll
    /\ next > Len(releases)
    /\ pc' = "done" /\ result' = "ok"
    /\ UNCHANGED <<inputV, matched, listV, tagV, baseV, docV, hostV, gitV, pagesV, scanV, memV, failed>>

\* GHClient.DeleteAllReleases up to the loop: GetAllReleases; with no release it
\* returns nil and ReleaseManager.DeleteAllReleases goes on to CleanAllEntries
GetAllReleases ==
    /\ pc = "list_releases"
    /\ ManagerDeleteAll
    /\ \E outcome \in {"listfail", "listed"} :
         IF outcome # "listed"
         THEN /\ pc' = "done" /\ result' = "error" /\ failed' = TRUE
              /\ UNCHANGED releases
         ELSE /\ \E l \in Listings(hostReleases) : releases' = l
              /\ pc' = IF Len(releases') = 0 THEN "prepare" ELSE "delete"
              /\ UNCHANGED <<failed, result>>
    /\ UNCHANGED <<inputV, matched, listV, tagV, baseV, docV, hostV, gitV, pagesV, pending, changedCharts, next,
                   memV>>

\* GHClient.DeleteAllReleases: one iteration of the loop over the releases
DeleteReleaseOfList ==
    /\ pc = "delete"
    /\ ManagerDeleteAll
    /\ next <= Len(releases)
    /\ LET r == DeleteRelease([host |-> hostReleases, log |-> apiLog], releases[next])
       IN  hostReleases' = r.host /\ apiLog' = r.log
    /\ attempted' = Append(attempted, releases[next])
    /\ next' = LoopAfter(next, Len(releases), FALSE)
    /\ UNCHANGED <<pc, inputV, matched, listV, tagV, baseV, docV, gitV, pagesV, pending, changedCharts, releases,
                   memV, failed, result>>

\* GHClient.DeleteAllReleases returns (no deletion can have failed);
\* ReleaseManager.DeleteAllReleases goes on to CleanAllEntries
DeleteAllReleasesDone ==
    /\ pc = "delete"
    /\ ManagerDeleteAll
    /\ next > Len(releases)
    /\ pc' = "prepare"
    /\ UNCHANGED <<inputV, matched, listV, tagV, baseV, docV, hostV, gitV, pagesV, scanV, memV, failed, result>>

-----------------------------------------------------------------------------
(* The branch-switch wrapper around the index mutation *)

\* restoreOriginalBranch: the head afterwards; ok is whether git checkout succeeds
RestoreOriginalBranch(h, orig, ok) ==
    IF orig # "" /\ ok THEN CheckoutBranch(h, RestoreTarget(orig)) ELSE h

\* git push origin <branch> of CommitAndPush: the remote file afterwards
\* (commented out in chart-releaser/internal/git.go)
Push(i, remote, file) == IF i = "releaser" THEN remote ELSE file

\* what the command returns after the index wrapper returned r
CommandResult(i, r) == IF i = "root" THEN "ok" ELSE r

\* mutation: a failed fetch of the pages branch is only logged
PrepareReturnsIgnoresFetch(outcome) ==
    IF outcome \in {"checkedout", "fetchfail"} THEN "pull" ELSE "wrapper_return"

\* preparePagesBranch: every error before the pull returns from the wrapper
PrepareReturns(outcome) == IF outcome = "checkedout" THEN "pull" ELSE "wrapper_return"

\* preparePagesBranch / PreparePagesBranch up to the checkout of the pages branch
PreparePagesBranch ==
    /\ pc = "prepare"
    /\ entryHead' = head
    /\ gitUsed' = TRUE
    /\ \E outcome \in {"nocurrent", "absent", "fetchfail", "checkoutfail", "checkedout"} :
         /\ outcome \in {"fetchfail", "checkoutfail", "checkedout"} => remoteHasPages
         /\ OriginalBranch' = IF outcome = "nocurrent" THEN OriginalBranch
                              ELSE GetCurrentBranch(head)
         /\ pc' = PrepareReturns(outcome)
         /\ IF outcome = "checkedout"
            THEN /\ head' = PagesBranch
                 /\ switches' = switches + 1
                 /\ UNCHANGED <<ret, failed>>
            ELSE /\ ret' = "error"
                 /\ failed' = (failed \/ outcome # "absent" \/ remoteHasPages)
                 /\ UNCHANGED <<head, switches>>
    /\ UNCHANGED <<inputV, matched, listV, tagV, baseV, docV, hostV, restored, pulled, fileV, loads, scanV,
                   indexFile, removedCharts, result>>

\* preparePagesBranch: PullBranch; a failed pull is only logged
PullBranch ==
    /\ pc = "pull"
    /\ \E ok \in BOOLEAN :
         /\ pulled' = IF ok THEN "ok" ELSE "failed"
         /\ failed' = (failed \/ ~ok)
         /\ pc' = AfterPull(ok)
    /\ UNCHANGED <<inputV, matched, listV, tagV, baseV, docV, hostV, head, entryHead, OriginalBranch, restored,
                   gitUsed, pagesV, scanV, memV, result>>

\* preparePagesBranch: index.yaml must exist on the pages branch; when it does
\* not, the original branch is restored and the wrapper returns the error
CheckIndexFile ==
    /\ pc = "check_index"
    /\ IF pagesFile # NoFile
       THEN /\ pc' = "load"
            /\ UNCHANGED <<head, restored, ret, failed>>
       ELSE /\ pc' = "wrapper_return"
            /\ ret' = "error"
            /\ \E ok \in BOOLEAN :
                 /\ head' = RestoreOriginalBranch(head, OriginalBranch, ok)
                 /\ restored' = IF ok THEN "ok" ELSE "failed"
                 /\ failed' = (failed \/ ~ok)
    /\ UNCHANGED <<inputV, matched, listV, tagV, baseV, docV, hostV, entryHead, OriginalBranch, pulled, gitUsed,
                   pagesV, scanV, indexFile, removedCharts, result>>

\* loadIndexFile
LoadIndexFile ==
    /\ pc = "load"
    /\ loads' = loads + 1
    /\ \E ok \in BOOLEAN :
         IF ok
         THEN /\ indexFile' = pagesFile.doc /\ pc' = "clean" /\ UNCHANGED <<ret, failed>>
         ELSE /\ ret' = "error" /\ failed' = TRUE /\ pc' = "restore" /\ UNCHANGED indexFile
    /\ UNCHANGED <<inputV, matched, listV, tagV, baseV, docV, hostV, gitV, fileV, switches, scanV, removedCharts,
                   result>>

\* the mutation of the loaded document: the loop of CleanEntriesVersions /
\* CleanMultipleChartIndexes, or the wipe of CleanAllEntries
CleanIndex ==
    /\ pc = "clean"
    /\ before' = indexFile
    /\ IF cmd # "changed"
       THEN /\ indexFile' = RemoveAll(indexFile)
            /\ lastOp' = "all"
            /\ UNCHANGED <<lastCharts, removedCharts>>
       ELSE /\ indexFile' = RemoveVersions(impl, indexFile, changedCharts)
            /\ lastOp' = "versions"
            /\ lastCharts' = changedCharts
            /\ removedCharts' =
                 IF impl = "root"
                 THEN RootCleanLoop([entries |-> indexFile.entries, removed |-> <<>>],
                                    changedCharts).removed
                 ELSE <<>>
    /\ pc' = "write"
    /\ UNCHANGED <<inputV, matched, listV, tagV, baseV, reps, steps, hostV, gitV, pagesV, scanV, ret, failed, result>>

\* root: CleanMultipleChartIndexes writes and commits only when removedCharts is not empty
WriteSkipped == impl = "root" /\ cmd = "changed" /\ removedCharts = <<>>

\* writeIndexFile
WriteIndexFile ==
    /\ pc = "write"
    /\ IF WriteSkipped
       THEN /\ pc' = "restore" /\ UNCHANGED <<pagesFile, writes, ret, failed>>
       ELSE \E ok \in BOOLEAN :
              IF ok
              THEN /\ pagesFile' = Marshal(indexFile) /\ writes' = writes + 1
                   /\ pc' = "commit" /\ UNCHANGED <<ret, failed>>
              ELSE /\ ret' = "error" /\ failed' = TRUE /\ pc' = "restore"
                   /\ UNCHANGED <<pagesFile, writes>>
    /\ UNCHANGED <<inputV, matched, listV, tagV, baseV, docV, hostV, gitV, pagesCommitted, remotePages, commits,
                   switches, loads, scanV, indexFile, removedCharts, result>>

\* commitIndexChanges: HasChanges, then CommitAndPush
CommitIndexChanges ==
    /\ pc = "commit"
    /\ pc' = "restore"
    /\ IF ~HasChanges(pagesFile, pagesCommitted)
       THEN UNCHANGED <<pagesCommitted, remotePages, commits, ret, failed>>
       ELSE \E outcome \in {"commitfail", "pushfail", "ok"} :
              /\ outcome = "pushfail" => impl = "root"
              /\ IF outcome = "commitfail"
                 THEN UNCHANGED <<pagesCommitted, remotePages, commits>>
                 ELSE /\ commits' = Append(commits, CommitMessage(impl, cmd, removedCharts))
                      /\ pagesCommitted' = pagesFile
                      /\ remotePages' = IF outcome = "ok"
                                        THEN Push(impl, remotePages, pagesFile)
                                        ELSE remotePages
              /\ ret' = IF outcome = "ok" THEN ret ELSE "error"
              /\ failed' = (failed \/ outcome # "ok")
    /\ UNCHANGED <<inputV, matched, listV, tagV, baseV, docV, hostV, gitV, pagesFile, writes, switches, loads,
                   scanV, indexFile, removedCharts, result>>

\* the deferred restoreOriginalBranch of the wrapper
RestoreBranch ==
    /\ pc = "restore"
    /\ \E ok \in BOOLEAN :
         /\ head' = RestoreOriginalBranch(head, OriginalBranch, ok)
         /\ restored' = IF ok THEN "ok" ELSE "failed"
         /\ failed' = (failed \/ ~ok)
    /\ pc' = "wrapper_return"
    /\ UNCHANGED <<inputV, matched, listV, tagV, baseV, docV, hostV, entryHead, OriginalBranch, pulled, gitUsed,
                   pagesV, scanV, memV, result>>

\* the wrapper returned: DeleteChangedCharts / cleanupChartIndex propagate its
\* error, deleteSpecificReleases only logs it
WrapperReturn ==
    /\ pc = "wrapper_return"
    /\ result' = CommandResult(impl, ret)
    /\ pc' = "done"
    /\ UNCHANGED <<inputV, matched, listV, tagV, baseV, docV, hostV, gitV, pagesV, scanV, memV, failed>>

Next ==
    \/ Start
    \/ FetchTags
    \/ GetLatestTag
    \/ GetChangedFiles
    \/ GroupChangedFiles
    \/ ScanChart
    \/ ScanDone
    \/ DeleteChartRelease
    \/ DeleteChartReleaseRoot
    \/ DeleteDone
    \/ ListReleases
    \/ DeleteListedRelease
    \/ DeleteAllDone
    \/ GetAllReleases
    \/ DeleteReleaseOfList
    \/ DeleteAllReleasesDone
    \/ ShellListReleases
    \/ ShellDeleteRelease
    \/ ShellDeleteAllDone
    \/ PreparePagesBranch
    \/ PullBranch
    \/ CheckIndexFile
    \/ LoadIndexFile
    \/ CleanIndex
    \/ WriteIndexFile
    \/ CommitIndexChanges
    \/ RestoreBranch
    \/ WrapperReturn

Spec == Init /\ [][Next]_vars

-----------------------------------------------------------------------------
(* Document-level specification: removeVersions and removeAll applied to       *)
(* every index document and chart list within the bounds                       *)

InitDoc ==
    /\ pc = "doc"
    /\ impl \in {"releaser", "root"}
    /\ cmd = "changed"
    /\ force = FALSE /\ withTags = FALSE /\ cleanIndex = FALSE /\ answer = ""
    /\ token = "ghp_token" /\ parentTag = NoTag
    /\ sinceCommit = "" /\ tagsFetched = "none" /\ pulled = "none" /\ gitUsed = FALSE
    /\ indexFile \in {IndexDoc(e) : e \in EntryMaps}
    /\ doc0 = indexFile /\ matched = Null
    /\ NoListing /\ NoTagCall
    /\ before = indexFile /\ lastOp = "none" /\ lastCharts = <<>> /\ reps = 0 /\ steps = 0
    /\ chartDir = <<"charts">> /\ versionPattern = DevPattern
    /\ changedFiles = <<>> /\ manifests = [d \in {DirA, DirB} |-> Missing]
    /\ hostReleases = {} /\ apiLog = <<>> /\ attempted = <<>>
    /\ head = PagesBranch /\ entryHead = NoBranch /\ OriginalBranch = "" /\ restored = "none"
    /\ remoteHasPages = TRUE
    /\ pagesFile = NoFile /\ pagesCommitted = NoFile /\ remotePages = NoFile
    /\ pending = {} /\ changedCharts = <<>> /\ releases = <<>> /\ next = 1
    /\ removedCharts = <<>> /\ ret = "ok"
    /\ commits = <<>> /\ writes = 0 /\ switches = 0 /\ loads = 0
    /\ failed = FALSE /\ result = "running"

\* removeVersions(charts) on the current document
ApplyRemoveVersions ==
    /\ pc = "doc"
    /\ steps < MaxApply
    /\ \E charts \in ChartLists :
         /\ indexFile' = RemoveVersions(impl, indexFile, charts)
         /\ lastCharts' = charts
         /\ reps' = IF lastOp = "versions" /\ lastCharts = charts THEN reps + 1 ELSE 1
    /\ before' = indexFile
    /\ lastOp' = "versions"
    /\ steps' = steps + 1
    /\ UNCHANGED <<pc, inputV, matched, listV, tagV, baseV, hostV, gitV, pagesV, scanV, removedCharts, ret, failed,
                   result>>

\* removeAll() on the current document
ApplyRemoveAll ==
    /\ pc = "doc"
    /\ steps < MaxApply
    /\ indexFile' = RemoveAll(indexFile)
    /\ before' = indexFile
    /\ lastOp' = "all"
    /\ reps' = 0
    /\ steps' = steps + 1
    /\ UNCHANGED <<pc, inputV, matched, listV, tagV, baseV, lastCharts, hostV, gitV, pagesV, scanV, removedCharts, ret,
                   failed, result>>

NextDoc == ApplyRemoveVersions \/ ApplyRemoveAll

SpecDoc == InitDoc /\ [][NextDoc]_vars

-----------------------------------------------------------------------------
(* Grouping specification: the change grouping applied to every list of        *)
(* changed paths and chart directory within the bounds                         *)

GroupDirs == { <<"charts">>, <<"deploy", "charts">> }

GroupPaths ==
    { <<"charts", "a", "Chart.yaml">>, <<"charts", "a", "values.yaml">>,
      <<"charts", "b", "README.md">>, <<"deploy", "charts", "a", "Chart.yaml">>,
      <<"docs", "index.md">>, <<"charts", "README.md">> }

InitGroup ==
    /\ pc = "group"
    /\ impl \in {"releaser", "root", "shell"}
    /\ cmd = "changed"
    /\ force = FALSE /\ withTags = FALSE /\ cleanIndex = FALSE /\ answer = ""
    /\ token = "ghp_token" /\ parentTag = NoTag
    /\ sinceCommit = "" /\ tagsFetched = "none" /\ pulled = "none" /\ gitUsed = FALSE
    /\ chartDir \in GroupDirs
    /\ changedFiles \in SeqsUpTo(GroupPaths, MaxFiles)
    /\ versionPattern = DevPattern
    /\ manifests = [d \in {DirA, DirB} |-> Missing]
    /\ hostReleases = {} /\ apiLog = <<>> /\ attempted = <<>>
    /\ head = BaseBranch /\ entryHead = NoBranch /\ OriginalBranch = "" /\ restored = "none"
    /\ remoteHasPages = TRUE
    /\ pagesFile = NoFile /\ pagesCommitted = NoFile /\ remotePages = NoFile
    /\ pending = {} /\ changedCharts = <<>> /\ releases = <<>> /\ next = 1
    /\ indexFile = Null /\ removedCharts = <<>> /\ ret = "ok"
    /\ commits = <<>> /\ writes = 0 /\ switches = 0 /\ loads = 0
    /\ failed = FALSE /\ result = "running"
    /\ before = Null /\ lastOp = "none" /\ lastCharts = <<>> /\ reps = 0 /\ steps = 0
    /\ doc0 = Null /\ matched = Null
    /\ NoListing /\ NoTagCall

\* delete-release.sh lookup_changed_charts, up to the filter_charts stage
ShellLookupChangedCharts ==
    /\ pc = "group"
    /\ impl = "shell"
    /\ pending' = ShellChartDirs(changedFiles, chartDir)
    /\ pc' = "filter"
    /\ UNCHANGED <<inputV, matched, listV, tagV, baseV, docV, hostV, gitV, pagesV, changedCharts, releases, next,
                   memV, failed, result>>

NextGroup == GroupChangedFiles \/ ShellLookupChangedCharts

SpecGroup == InitGroup /\ [][NextGroup]_vars

-----------------------------------------------------------------------------
(* delete-release.sh: the DeleteChanged run of the shell implementation. The   *)
(* script runs under set -euo pipefail: a failing simple command ends it, but  *)
(* not inside a command substitution, a local assignment or an if condition.   *)

FooDir == <<"charts", "foo">>
BarDir == <<"charts", "bar">>

\* git diff --find-renames --name-only <commit> -- charts
ShellDiffChoices ==
    { <<>>,
      << <<"charts", "foo", "Chart.yaml">> >>,
      << <<"charts", "foo", "Chart.yaml">>, <<"charts", "foo", "values.yaml">>,
         <<"charts", "bar", "Chart.yaml">> >> }

\* what Chart.yaml holds in each chart directory
ShellManifestChoices ==
    {[d \in {FooDir, BarDir} |-> IF d = FooDir THEN mf ELSE mb] :
        mf \in {Missing, Unreadable, Manifest("foo", DevVersion), Manifest("foo", "1.0.0")},
        mb \in {Missing, Manifest("bar", DevVersion)}}

\* the position of a directory name in the output of sort -u
SortRank(name) == CASE name = "bar" -> 1 [] name = "foo" -> 2 [] OTHER -> 3

\* basename
Basename(path) == IF path = <<>> THEN "" ELSE path[Len(path)]

\* the next line read by the while loop of filter_charts
FirstSorted(S) ==
    CHOOSE d \in S : \A e \in S : SortRank(Basename(d)) <= SortRank(Basename(e))

\* local chart_version=$(yq eval '.version' file): a failing yq leaves the
\* empty string
YqVersion(m) == IF m.kind = "chart" THEN m.version ELSE ""

\* [[ "$chart_version" =~ $version_pattern ]]: status 0 on a match, 1 on no
\* match, 2 on a pattern that does not compile
RegexStatus(version, pattern) ==
    IF CompileFails(pattern) THEN 2
    ELSE IF MatchString(pattern, version) THEN 0
    ELSE 1

\* the chart delete_chart_release works on for a line of changed_charts
ShellChart(d) == ChartInfo(d, Basename(d), YqVersion(ManifestAt(d)))

\* readarray -t changed_charts <<<"$(...)": an empty output gives one empty line
ReadArray(lines) == IF lines = <<>> THEN <<ShellChart(<<>>)>> ELSE lines

\* lookup_latest_tag: the described tag whatever the branch, else the first
\* commit on the base branch, else the merge-base; a failing merge-base exits
\* the command substitution with nothing printed
ShellLatestTag(currentBranch, baseBranch, described, baseOk) ==
    IF described # NoTag THEN described
    ELSE IF currentBranch = baseBranch THEN FirstCommit
    ELSE IF baseOk THEN MergeBase
    ELSE ""

\* yq eval 'del(.entries."name"[] | select(.version == "version"))'
YqDel(doc, name, version) ==
    IF name \in DOMAIN doc.entries
    THEN [doc EXCEPT !.entries[name] = FilterVersions(@, version)]
    ELSE doc

\* "Remove $chart_name version $chart_version from index"
ShellCommitMessage(chart) ==
    <<"Remove", chart.name, "version", chart.version, "from", "index">>

\* the script ends with a non-zero status
ScriptExits == pc' = "done" /\ result' = "error" /\ failed' = TRUE

InitShell ==
    /\ pc = "start"
    /\ impl = "shell" /\ cmd = "changed"
    /\ chartDir = <<"charts">>
    /\ versionPattern \in Patterns
    /\ changedFiles \in ShellDiffChoices
    /\ manifests \in (IF changedFiles # <<>> THEN ShellManifestChoices
                      ELSE {[d \in {FooDir, BarDir} |-> Missing]})
    /\ hostReleases \in HostChoices
    /\ force = FALSE /\ withTags = FALSE /\ cleanIndex = FALSE /\ answer = ""
    /\ token \in {NoToken, "ghp_token"}
    /\ parentTag \in {NoTag, "v1.0.0"}
    /\ sinceCommit = "" /\ tagsFetched = "none" /\ pulled = "none" /\ gitUsed = FALSE
    /\ head \in {BaseBranch, "feature", Detached}
    /\ remoteHasPages \in BOOLEAN
    /\ pagesFile \in (IF remoteHasPages THEN PagesFiles ELSE {NoFile})
    /\ pagesCommitted = pagesFile
    /\ remotePages = pagesFile
    /\ pending = {} /\ changedCharts = <<>> /\ releases = <<>> /\ next = 1
    /\ apiLog = <<>> /\ attempted = <<>>
    /\ entryHead = NoBranch /\ OriginalBranch = "" /\ restored = "none"
    /\ indexFile = Null /\ removedCharts = <<>> /\ ret = "ok"
    /\ commits = <<>> /\ writes = 0 /\ switches = 0 /\ loads = 0
    /\ failed = FALSE /\ result = "running"
    /\ before = Null /\ lastOp = "none" /\ lastCharts = <<>> /\ reps = 0 /\ steps = 0
    /\ doc0 = Null /\ matched = Null
    /\ NoListing /\ NoTagCall

\* main: check_gh_login || exit 1
CheckGhLogin ==
    /\ pc = "start"
    /\ impl = "shell"
    /\ \E loggedIn \in BOOLEAN :
         IF loggedIn \/ token # NoToken
         THEN pc' = "latest_tag" /\ UNCHANGED <<result, failed>>
         ELSE ScriptExits
    /\ UNCHANGED <<inputV, matched, listV, tagV, baseV, docV, hostV, gitV, pagesV, scanV, memV>>

\* main: local latest_tag=$(lookup_latest_tag "$base_branch")
LookupLatestTag ==
    /\ pc = "latest_tag"
    /\ impl = "shell"
    /\ gitUsed' = TRUE
    /\ \E fetchOk \in BOOLEAN, baseOk \in BOOLEAN :
         /\ tagsFetched' = IF fetchOk THEN "ok" ELSE "failed"
         /\ sinceCommit' = ShellLatestTag(GetCurrentBranch(head), BaseBranch, parentTag, baseOk)
         /\ failed' = (failed \/ ~fetchOk)
    /\ pc' = "group"
    /\ UNCHANGED <<inputV, matched, listV, tagV, docV, hostV, head, entryHead, OriginalBranch, restored, pulled,
                   pagesV, scanV, memV, result>>

\* filter_charts: one iteration of the while loop; the exit 1 of a version that
\* does not match ends the pipeline and keeps the lines already printed
FilterCharts ==
    /\ pc = "filter"
    /\ pending # {}
    /\ LET chart == FirstSorted(pending)
           m == ManifestAt(chart)
       IN  IF m.kind = "missing"
           THEN pending' = pending \ {chart} /\ UNCHANGED changedCharts
           ELSE IF RegexStatus(YqVersion(m), versionPattern) = 0
           THEN /\ pending' = pending \ {chart}
                /\ changedCharts' = Append(changedCharts, ShellChart(chart))
           ELSE pending' = {} /\ UNCHANGED changedCharts
    /\ UNCHANGED <<pc, inputV, matched, listV, tagV, baseV, docV, hostV, gitV, pagesV, releases, next, memV,
                   failed, result>>

\* main: readarray of the output of lookup_changed_charts, whose exit status is
\* not looked at, and the test for an empty array
ReadChangedCharts ==
    /\ pc = "filter"
    /\ pending = {}
    /\ changedCharts' = ReadArray(changedCharts)
    /\ IF Len(changedCharts') = 0
       THEN pc' = "done" /\ result' = "ok"
       ELSE pc' = "delete" /\ UNCHANGED result
    /\ UNCHANGED <<inputV, matched, listV, tagV, baseV, docV, hostV, gitV, pagesV, pending, releases, next, memV,
                   failed>>

\* delete_chart_release up to the call of clean_specific_chart_index
ShellDeleteChartRelease ==
    /\ pc = "delete"
    /\ impl = "shell"
    /\ next <= Len(changedCharts)
    /\ LET chart == changedCharts[next]
           release_name == ReleaseName(chart)
           st == [host |-> hostReleases, log |-> apiLog]
       IN  IF RegexStatus(chart.version, versionPattern) # 0
           THEN /\ next' = next + 1
                /\ UNCHANGED <<pc, hostV, failed, result>>
           ELSE \E listed \in BOOLEAN, deleted \in BOOLEAN :
                  LET found == listed /\ release_name \in hostReleases
                      afterRelease ==
                          IF ~found THEN st
                          ELSE IF deleted
                          THEN [Request(st, "DeleteRelease", release_name)
                                  EXCEPT !.host = @ \ {release_name}]
                          ELSE Request(st, "DeleteRelease", release_name)
                      afterTags ==
                          Request(Request(afterRelease, "DeleteTag", release_name),
                                  "DeleteTag", <<chart.version>>)
                  IN  /\ ~found => deleted
                      /\ attempted' = Append(attempted, release_name)
                      /\ IF found /\ ~deleted
                         THEN /\ hostReleases' = afterRelease.host
                              /\ apiLog' = afterRelease.log
                              /\ ScriptExits
                              /\ UNCHANGED next
                         ELSE /\ hostReleases' = afterTags.host
                              /\ apiLog' = afterTags.log
                              /\ pc' = "prepare"
                              /\ UNCHANGED <<next, failed, result>>
    /\ UNCHANGED <<inputV, matched, listV, tagV, baseV, docV, gitV, pagesV, pending, changedCharts, releases, memV>>

\* clean_specific_chart_index: prepare_pages_branch, whose failure ends the script
ShellPreparePagesBranch ==
    /\ pc = "prepare"
    /\ impl = "shell"
    /\ entryHead' = head
    /\ \E branchOk \in BOOLEAN,
          outcome \in {"absent", "fetchfail", "checkoutfail", "checkedout"},
          pullOk \in BOOLEAN, restoreOk \in BOOLEAN :
         LET noIndex == outcome = "checkedout" /\ pagesFile = NoFile
         IN  /\ outcome # "absent" => remoteHasPages
             /\ outcome # "checkedout" => pullOk
             /\ (~noIndex \/ ~branchOk) => restoreOk
             /\ OriginalBranch' = IF branchOk THEN GetCurrentBranch(head) ELSE ""
             /\ IF outcome = "checkedout"
                THEN /\ switches' = switches + 1
                     /\ pulled' = IF pullOk THEN "ok" ELSE "failed"
                ELSE UNCHANGED <<switches, pulled>>
             /\ IF outcome = "checkedout" /\ ~noIndex
                THEN /\ head' = PagesBranch
                     /\ pc' = "yq"
                     /\ failed' = (failed \/ ~pullOk)
                     /\ UNCHANGED <<restored, result>>
                ELSE /\ ScriptExits
                     /\ IF noIndex
                        THEN /\ head' = RestoreOriginalBranch(PagesBranch, OriginalBranch',
                                                              restoreOk)
                             /\ restored' = IF restoreOk THEN "ok" ELSE "failed"
                        ELSE UNCHANGED <<head, restored>>
    /\ UNCHANGED <<inputV, matched, listV, tagV, baseV, docV, hostV, gitUsed, fileV, loads, scanV, memV>>

\* clean_specific_chart_index: the yq edit of index.yaml, written over the file
YqDelete ==
    /\ pc = "yq"
    /\ loads' = loads + 1
    /\ LET chart == changedCharts[next]
       IN  \E ok \in BOOLEAN, restoreOk \in BOOLEAN, form \in {pagesFile.form, "marshalled"} :
             /\ (ok \/ OriginalBranch = "") => restoreOk
             /\ ~ok => form = pagesFile.form
             /\ IF ok
                THEN /\ before' = pagesFile.doc
                     /\ lastOp' = "versions"
                     /\ lastCharts' = <<chart>>
                     /\ pagesFile' = File(YqDel(pagesFile.doc, chart.name, chart.version), form)
                     /\ writes' = writes + 1
                     /\ pc' = "commit"
                     /\ UNCHANGED <<head, restored, failed, result>>
                ELSE /\ head' = RestoreOriginalBranch(head, OriginalBranch, restoreOk)
                     /\ restored' = IF restoreOk THEN "ok" ELSE "failed"
                     /\ ScriptExits
                     /\ UNCHANGED <<before, lastOp, lastCharts, pagesFile, writes>>
    /\ UNCHANGED <<inputV, matched, listV, tagV, baseV, reps, steps, hostV, entryHead, OriginalBranch, pulled, gitUsed,
                   pagesCommitted, remotePages, commits, switches, scanV, memV>>

\* commit_and_push_index: a failed commit or push ends the script on the pages
\* branch
CommitAndPushIndex ==
    /\ pc = "commit"
    /\ impl = "shell"
    /\ IF ~HasChanges(pagesFile, pagesCommitted)
       THEN /\ pc' = "restore"
            /\ UNCHANGED <<pagesCommitted, remotePages, commits, failed, result>>
       ELSE \E outcome \in {"commitfail", "pushfail", "ok"} :
              /\ IF outcome = "commitfail"
                 THEN UNCHANGED <<pagesCommitted, remotePages, commits>>
                 ELSE /\ commits' = Append(commits, ShellCommitMessage(changedCharts[next]))
                      /\ pagesCommitted' = pagesFile
                      /\ remotePages' = IF outcome = "ok" THEN pagesFile ELSE remotePages
              /\ IF outcome = "ok"
                 THEN pc' = "restore" /\ UNCHANGED <<failed, result>>
                 ELSE ScriptExits
    /\ UNCHANGED <<inputV, matched, listV, tagV, baseV, docV, hostV, gitV, pagesFile, writes, switches, loads,
                   scanV, memV>>

\* clean_specific_chart_index: restore_original_branch, then the next chart of
\* the loop of main
ShellRestoreOriginalBranch ==
    /\ pc = "restore"
    /\ impl = "shell"
    /\ \E ok \in BOOLEAN :
         /\ OriginalBranch = "" => ok
         /\ head' = RestoreOriginalBranch(head, OriginalBranch, ok)
         /\ restored' = IF ok THEN "ok" ELSE "failed"
         /\ IF ok
            THEN pc' = "delete" /\ next' = next + 1 /\ UNCHANGED <<failed, result>>
            ELSE ScriptExits /\ UNCHANGED next
    /\ UNCHANGED <<inputV, matched, listV, tagV, baseV, docV, hostV, entryHead, OriginalBranch, pulled, gitUsed,
                   pagesV, pending, changedCharts, releases, memV>>

\* main: the loop over changed_charts is over
ShellDone ==
    /\ pc = "delete"
    /\ impl = "shell"
    /\ next > Len(changedCharts)
    /\ pc' = "done" /\ result' = "ok"
    /\ UNCHANGED <<inputV, matched, listV, tagV, baseV, docV, hostV, gitV, pagesV, scanV, memV, failed>>

NextShell ==
    \/ CheckGhLogin
    \/ LookupLatestTag
    \/ ShellLookupChangedCharts
    \/ FilterCharts
    \/ ReadChangedCharts
    \/ ShellDeleteChartRelease
    \/ ShellPreparePagesBranch
    \/ YqDelete
    \/ CommitAndPushIndex
    \/ ShellRestoreOriginalBranch
    \/ ShellDone

SpecShell == InitShell /\ [][NextShell]_vars

-----------------------------------------------------------------------------
(* Version gate specification: versionMatchesPattern applied to every version  *)
(* and pattern within the bounds                                               *)

PrefixPattern == "^0\\.0\\.0-.*$"
SuffixPattern == "^.*-dev$"
UnanchoredPattern == "0\\.0\\.0-dev"
UnescapedPattern == "^0.0.0-dev$"
StarPattern == "*dev"
OpenPattern == "^0\\.0\\.0-dev"

MatchPatterns ==
    {DevPattern, AnyPattern, BadPattern, PrefixPattern, SuffixPattern, UnanchoredPattern,
     UnescapedPattern, StarPattern, OpenPattern}

MatchVersions ==
    {"", DevVersion, "1.0.0", "1.2.3", "0.0.0-rc1", "10.0.0-dev", "0a0b0-dev", "1.0.0-dev",
     "0.0.0-dev.1"}

InitMatch ==
    /\ pc = "match"
    /\ impl \in {"releaser", "root"}
    /\ cmd = "changed"
    /\ force = FALSE /\ withTags = FALSE /\ cleanIndex = FALSE /\ answer = ""
    /\ token = "ghp_token" /\ parentTag = NoTag
    /\ sinceCommit = "" /\ tagsFetched = "none" /\ pulled = "none" /\ gitUsed = FALSE
    /\ chartDir = <<"charts">>
    /\ changedFiles = << <<"charts", "a", "Chart.yaml">> >>
    /\ versionPattern \in MatchPatterns
    /\ \E v \in MatchVersions :
         manifests = [d \in {DirA, DirB} |-> IF d = DirA THEN Manifest("foo", v) ELSE Missing]
    /\ hostReleases = {} /\ apiLog = <<>> /\ attempted = <<>>
    /\ head = BaseBranch /\ entryHead = NoBranch /\ OriginalBranch = "" /\ restored = "none"
    /\ remoteHasPages = TRUE
    /\ pagesFile = NoFile /\ pagesCommitted = NoFile /\ remotePages = NoFile
    /\ pending = {} /\ changedCharts = <<>> /\ releases = <<>> /\ next = 1
    /\ indexFile = Null /\ removedCharts = <<>> /\ ret = "ok"
    /\ commits = <<>> /\ writes = 0 /\ switches = 0 /\ loads = 0
    /\ failed = FALSE /\ result = "running"
    /\ before = Null /\ lastOp = "none" /\ lastCharts = <<>> /\ reps = 0 /\ steps = 0
    /\ doc0 = Null /\ matched = Null
    /\ NoListing /\ NoTagCall

\* versionMatchesPattern(metadata.Version, versionPattern)
ApplyVersionMatchesPattern ==
    /\ pc = "match"
    /\ matched = Null
    /\ LET version == ManifestAt(DirA).version
           r == VersionMatchesPattern(version, versionPattern)
       IN  matched' = [version |-> version, pattern |-> versionPattern,
                       matches |-> r.matches, err |-> r.err]
    /\ UNCHANGED <<pc, inputV, listV, tagV, baseV, docV, hostV, gitV, pagesV, scanV, memV, failed, result>>

NextMatch == ApplyVersionMatchesPattern

SpecMatch == InitMatch /\ [][NextMatch]_vars

-----------------------------------------------------------------------------
(* GHClient.GetAllReleases page by page (SpecList) *)

\* ListOptions.PerPage, 100 in the code; 2 keeps several pages within MaxReleases
PerPage == 2

ReleaseIds == 1..MaxReleases

\* the listings a host can hold: every release once
HostLists ==
    {l \in SeqsUpTo(ReleaseIds, MaxReleases) : \A a, b \in DOMAIN l : l[a] = l[b] => a = b}

\* the page the host serves for opts.Page: page 0 (unset) is the first page
PageServed(p) == IF p = 0 THEN 1 ELSE p

\* ListReleases: the releases of page p
PageOf(list, p) ==
    SubSeq(list, (p - 1) * PerPage + 1,
           IF p * PerPage < Len(list) THEN p * PerPage ELSE Len(list))

\* ListReleases: resp.NextPage of page p, 0 on the last page
NextPage(list, p) == IF p * PerPage < Len(list) THEN p + 1 ELSE 0

\* mutation: only the releases of the last page are kept
AppendPageKeepsLast(all, rels) == rels

\* allReleases = append(allReleases, releases...)
AppendPage(all, rels) == all \o rels

InitList ==
    /\ pc = "list_page"
    /\ impl = "releaser" /\ cmd = "deleteall"
    /\ force = FALSE /\ withTags = FALSE /\ cleanIndex = FALSE /\ answer = ""
    /\ token = "ghp_token" /\ parentTag = NoTag
    /\ sinceCommit = "" /\ tagsFetched = "none" /\ pulled = "none" /\ gitUsed = FALSE
    /\ chartDir = <<"charts">> /\ changedFiles = <<>>
    /\ versionPattern = DevPattern
    /\ manifests = [d \in {DirA, DirB} |-> Missing]
    /\ hostReleases = {} /\ apiLog = <<>> /\ attempted = <<>>
    /\ head = BaseBranch /\ entryHead = NoBranch /\ OriginalBranch = "" /\ restored = "none"
    /\ remoteHasPages = TRUE
    /\ pagesFile = NoFile /\ pagesCommitted = NoFile /\ remotePages = NoFile
    /\ pending = {} /\ changedCharts = <<>> /\ releases = <<>> /\ next = 1
    /\ indexFile = Null /\ removedCharts = <<>> /\ ret = "ok"
    /\ commits = <<>> /\ writes = 0 /\ switches = 0 /\ loads = 0
    /\ failed = FALSE /\ result = "running"
    /\ before = Null /\ lastOp = "none" /\ lastCharts = <<>> /\ reps = 0 /\ steps = 0
    /\ doc0 = Null /\ matched = Null
    /\ hostList \in HostLists
    /\ page = 0 /\ allReleases = <<>> /\ requested = <<>> /\ returned = NotListed
    /\ NoTagCall

\* GetAllReleases: one iteration of the for loop, with the return it may lead to
ListReleasesPage ==
    /\ pc = "list_page"
    /\ LET p == PageServed(page)
       IN  /\ requested' = Append(requested, p)
           /\ \E ok \in BOOLEAN :
                IF ~ok
                THEN /\ returned' = [releases |-> <<>>, err |-> TRUE]
                     /\ pc' = "list_return"
                     /\ failed' = TRUE
                     /\ UNCHANGED <<allReleases, page>>
                ELSE /\ allReleases' = AppendPage(allReleases, PageOf(hostList, p))
                     /\ UNCHANGED failed
                     /\ IF NextPage(hostList, p) = 0
                        THEN /\ returned' = [releases |-> allReleases', err |-> FALSE]
                             /\ pc' = "list_return"
                             /\ UNCHANGED page
                        ELSE /\ page' = NextPage(hostList, p)
                             /\ UNCHANGED <<pc, returned>>
    /\ UNCHANGED <<inputV, matched, hostList, tagV, baseV, docV, hostV, gitV, pagesV, scanV, memV, result>>

NextList == ListReleasesPage

SpecList == InitList /\ [][NextList]_vars

-----------------------------------------------------------------------------
(* Properties of the index document operations (SpecDoc) *)

\* C5: removeVersions is idempotent: a second removeVersions with the same chart
\* list leaves the entries map as the first one left it
C5_Idempotent ==
    (pc = "doc" /\ reps >= 2) => indexFile.entries = before.entries

\* two removeVersions calls with the same two-chart list, the first of which
\* removed something
C5_Witness ==
    /\ pc = "doc" /\ reps = 2 /\ steps = 2
    /\ Len(lastCharts) = 2
    /\ indexFile.entries # doc0.entries

\* C6: removeVersions leaves every chart key not named in the chart list with the
\* same version list, and leaves apiVersion and generated as they were
C6_Frame ==
    (pc = "doc" /\ lastOp = "versions") =>
        /\ \A n \in Names \ ChartNames(lastCharts) :
             /\ n \in DOMAIN indexFile.entries <=> n \in DOMAIN before.entries
             /\ n \in DOMAIN before.entries => indexFile.entries[n] = before.entries[n]
        /\ indexFile.apiVersion = before.apiVersion
        /\ indexFile.generated = before.generated

\* a removeVersions call that removed a named chart's key next to an unrelated chart
C6_Witness ==
    /\ pc = "doc" /\ lastOp = "versions"
    /\ \E n \in ChartNames(lastCharts) :
         n \in DOMAIN before.entries /\ n \notin DOMAIN indexFile.entries
    /\ \E n \in Names \ ChartNames(lastCharts) :
         n \in DOMAIN indexFile.entries /\ Len(indexFile.entries[n]) = 2

\* a chart named in the last chart list is a key with an empty version list
EmptyResidue(n) == n \in DOMAIN indexFile.entries /\ Len(indexFile.entries[n]) = 0

\* C7: after removeVersions no chart named in the input is a key with an empty
\* version list, also when its list was already empty before the call
C7_NoEmptyResidue ==
    (pc = "doc" /\ lastOp = "versions") =>
        \A n \in ChartNames(lastCharts) : ~EmptyResidue(n)

-----------------------------------------------------------------------------
(* Properties of the change grouping (SpecGroup) *)

\* { chartDir/s : some changed path has chartDir as leading prefix and s next }
ExpectedDirs(files, dir) ==
    {dir \o <<files[i][Len(dir) + 1]>> :
        i \in {j \in DOMAIN files : IsPrefix(dir, files[j]) /\ Len(files[j]) > Len(dir)}}

\* C9: the candidate chart directories are exactly the directories chartDir/s of
\* the changed paths below chartDir, for every chart directory
C9_Grouping ==
    pc \in {"scan", "filter"} => pending = ExpectedDirs(changedFiles, chartDir)

-----------------------------------------------------------------------------
(* Properties of the command runs (Spec) *)

\* a changed chart directory holds a readable Chart.yaml whose version does not
\* match the version pattern
HasMismatch ==
    /\ cmd = "changed"
    /\ \E d \in ChartDirs(changedFiles, chartDir) :
         /\ ManifestAt(d).kind = "chart"
         /\ ~VersionMatchesPattern(ManifestAt(d).version, versionPattern).matches

\* C1: fail-closed gate: when a changed chart's version does not match the
\* pattern, no release or tag request is issued, no branch is switched, the
\* index is not written or committed, and the run ends with an error, also when
\* other changed charts match
C1_FailClosed ==
    HasMismatch =>
        /\ pc \notin {"delete", "prepare", "pull", "check_index", "load", "clean", "write",
                      "commit", "restore", "wrapper_return"}
        /\ apiLog = <<>>
        /\ hostReleases \in HostChoices
        /\ entryHead = NoBranch /\ OriginalBranch = "" /\ restored = "none"
        /\ head \in {BaseBranch, "feature", Detached}
        /\ writes = 0 /\ commits = <<>>
        /\ pagesFile = pagesCommitted /\ remotePages = pagesCommitted
        /\ pc = "done" => result = "error"

\* a run that scanned a matching chart first and then stopped at the mismatch,
\* with a release of the matching chart on the host
C1_Witness ==
    /\ HasMismatch
    /\ pc = "done" /\ result = "error" /\ ~failed
    /\ changedCharts # <<>>
    /\ ReleaseName(changedCharts[1]) \in hostReleases
    /\ versionPattern = DevPattern
    /\ pagesFile # NoFile

\* the index document of the remote pages branch lists chart c
Listed(file, c) ==
    /\ file # NoFile
    /\ c.name \in DOMAIN file.doc.entries
    /\ \E k \in DOMAIN file.doc.entries[c.name] :
         file.doc.entries[c.name][k].version = c.version

\* C2: a cleanup run over changed charts in which every external call succeeds
\* ends with the release of each changed chart gone from the host, a tag
\* deletion for it issued, and no entry of it in the index of the pages branch
C2_EndToEnd ==
    (/\ pc = "done" /\ impl = "releaser" /\ cmd = "changed"
     /\ ~failed /\ result = "ok" /\ changedCharts # <<>>) =>
        \A k \in DOMAIN changedCharts :
            /\ ReleaseName(changedCharts[k]) \notin hostReleases
            /\ \E j \in DOMAIN apiLog : apiLog[j] = <<"DeleteTag", ReleaseName(changedCharts[k])>>
            /\ ~Listed(remotePages, changedCharts[k])

\* the chart versions the last removeVersions call took out of the document
RemovedVersions ==
    {c \in {lastCharts[k] : k \in DOMAIN lastCharts} :
        /\ c.name \in DOMAIN before.entries
        /\ \E k \in DOMAIN before.entries[c.name] :
             before.entries[c.name][k].version = c.version}

\* C3: the commit removeVersions makes mentions the name and the version of each
\* chart version it removed, and is on the remote pages branch when the run is over
C3_CommitMessage ==
    (cmd = "changed" /\ commits # <<>>) =>
        /\ \A c \in RemovedVersions :
             /\ Mentions(commits[Len(commits)], c.name)
             /\ Mentions(commits[Len(commits)], c.version)
        /\ (pc = "done" /\ ~failed) => remotePages = pagesCommitted

\* C4: when the wrapper has returned and the checkout of the original branch did
\* not fail, the branch checked out is the one checked out at the call, on every
\* exit path
C4_BranchRestored ==
    (/\ pc \in {"wrapper_return", "done"}
     /\ entryHead \notin {NoBranch, Detached}
     /\ restored # "failed") => head = entryHead

\* a run entered on a feature branch whose index write succeeded and whose commit
\* failed, back on the feature branch
C4_Witness ==
    /\ pc = "done" /\ entryHead = "feature" /\ OriginalBranch = "feature"
    /\ restored = "ok" /\ writes = 1 /\ ret = "error"
    /\ head = "feature"

\* C8: removeAll leaves an empty entries map whatever the index held, and the
\* emptied document is the one written to index.yaml on the pages branch
C8_RemoveAllWritten ==
    cmd = "all" =>
        /\ lastOp = "all" => /\ indexFile.entries = NoEntries
                             /\ indexFile.apiVersion = before.apiVersion
                             /\ indexFile.generated = before.generated
        /\ pc = "commit" => head = PagesBranch
        /\ writes > 0 => /\ lastOp = "all"
                         /\ pagesFile = Marshal(indexFile)
                         /\ pagesFile.doc.entries = NoEntries

\* a wipe of an index that held two charts, written and committed, by each binary
C8_Witness ==
    /\ cmd = "all" /\ pc = "done" /\ writes = 1 /\ commits # <<>>
    /\ DOMAIN before.entries = {"foo", "bar"}
    /\ pagesFile.doc.entries = NoEntries
    /\ (impl = "root" => remotePages = pagesFile)

\* C10: when the pages branch is absent on the remote or index.yaml is missing
\* on it, delete-release and cleanup end with an error, without an index write
\* and without a commit
C10_FatalIndexErrors ==
    (/\ pc = "done" /\ ~DeleteAll
     /\ entryHead # NoBranch
     /\ (~remoteHasPages \/ pagesFile = NoFile)) =>
        /\ result = "error"
        /\ writes = 0 /\ commits = <<>>

\* C11: removeVersions writes index.yaml only when at least one entry was removed
\* from the document
C11_WriteOnlyOnChange ==
    (cmd = "changed" /\ writes > 0) => RemovedVersions # {}

\* C12: a commit is created or a push made only by the commit step of a run
\* whose index.yaml differs from the committed content; a run that leaves the
\* content equal commits and pushes nothing
C12_NoSpuriousCommit ==
    [][(commits' # commits \/ remotePages' # remotePages \/ pagesCommitted' # pagesCommitted)
          => (pc = "commit" /\ pagesFile # pagesCommitted)]_vars

\* a run that wrote index.yaml with the content already committed and ended
\* without a commit
C12_Witness ==
    /\ pc = "done" /\ writes = 1 /\ ret = "ok" /\ ~failed
    /\ pagesFile = pagesCommitted /\ pagesFile = remotePages
    /\ commits = <<>>

\* C13: the diff baseline is the tag described from the parent of HEAD when there
\* is one; otherwise the first commit when the current branch is the base branch;
\* otherwise the merge-base of HEAD and the base branch
C13_Baseline ==
    (cmd = "changed" /\ pc \in {"changed_files", "group", "scan", "delete"}) =>
        /\ parentTag # NoTag => sinceCommit = parentTag
        /\ (parentTag = NoTag /\ head = BaseBranch) => sinceCommit = FirstCommit
        /\ (parentTag = NoTag /\ head # BaseBranch) => sinceCommit = MergeBase
        /\ sinceCommit \in {parentTag, FirstCommit, MergeBase} \ {NoTag}

\* on the base branch without a tag at the parent of HEAD the first commit was
\* chosen
C13_Witness ==
    /\ pc = "changed_files" /\ head = BaseBranch /\ parentTag = NoTag
    /\ sinceCommit = FirstCommit

\* C17: with the token variable unset or empty the cleanup command ends with an
\* error before any git command, any request to the host and any change to the
\* index or the checked-out branch
C17_TokenFailFast ==
    (impl = "releaser" /\ token = NoToken) =>
        /\ pc \in {"start", "done"}
        /\ pc = "done" => result = "error"
        /\ ~gitUsed /\ tagsFetched = "none" /\ pulled = "none" /\ sinceCommit = ""
        /\ apiLog = <<>>
        /\ entryHead = NoBranch /\ OriginalBranch = "" /\ restored = "none"
        /\ writes = 0 /\ commits = <<>>
        /\ pagesFile = pagesCommitted /\ remotePages = pagesCommitted

\* a cleanup run over changed charts without a token that ended with an error,
\* with a release on the host and an index on the pages branch
C17_Witness ==
    /\ impl = "releaser" /\ token = NoToken /\ cmd = "changed"
    /\ pc = "done" /\ result = "error"
    /\ hostReleases # {} /\ pagesFile # NoFile /\ changedFiles # <<>>

\* C18: the tag fetch and the pull of the pages branch never abort: whatever
\* their outcome the run goes on with the same next step (the branch lookup of
\* the baseline resolution, the index.yaml test), and the baseline is resolved
\* from the described tag and the branch alone
C18_BestEffort ==
    [][/\ pc = "latest_tag" =>
            /\ pc' = "current_branch"
            /\ sinceCommit' = sinceCommit /\ result' = result /\ head' = head
       /\ (pc = "current_branch" /\ pc' = "changed_files") =>
            sinceCommit' = LatestTag(GetCurrentBranch(head), BaseBranch, parentTag)
       /\ pc = "pull" =>
            /\ pc' = "check_index"
            /\ ret' = ret /\ result' = result /\ head' = head
            /\ pagesFile' = pagesFile /\ indexFile' = indexFile]_vars

\* a run whose tag fetch and pull both failed and that still removed the
\* entries and committed the index
C18_Witness ==
    /\ tagsFetched = "failed" /\ pulled = "failed"
    /\ pc = "done" /\ result = "ok" /\ ret = "ok"
    /\ writes = 1 /\ commits # <<>>
    /\ RemovedVersions # {}

\* C14: in a delete-all run in which the host reported no releases, no release
\* or tag deletion is requested, no branch is switched, the index is not written,
\* and the run has ended with success
C14_EmptyListStops ==
    (/\ DeleteAll \/ ManagerDeleteAll
     /\ pc \notin {"start", "list_releases"}
     /\ releases = <<>>
     /\ ~(pc = "done" /\ result = "error")) =>
        /\ pc = "done" /\ result = "ok"
        /\ apiLog = <<>>
        /\ ~gitUsed /\ entryHead = NoBranch /\ OriginalBranch = ""
        /\ writes = 0 /\ commits = <<>>
        /\ pagesFile = pagesCommitted /\ remotePages = pagesCommitted

\* the delete loop of the run has been left
LoopOver ==
    \/ /\ cmd = "changed" /\ impl \in {"releaser", "root"}
       /\ (pc = "prepare" \/ entryHead # NoBranch)
    \/ /\ DeleteAll \/ ManagerDeleteAll
       /\ releases # <<>>
       /\ pc \notin {"list_releases", "delete"}
       /\ DeleteAll => (force \/ ConfirmAction(answer))

\* the release names the loop has to call its delete function for
LoopItems ==
    IF cmd = "changed"
    THEN [k \in DOMAIN changedCharts |-> ReleaseName(changedCharts[k])]
    ELSE releases

\* C15: a failed deletion of a release or tag does not stop the loop: when the
\* loop is over, a delete has been attempted for every release of the list
\* (DeleteAll) and for every matched chart's name-version (DeleteChanged), in
\* order, whatever the outcome of the earlier ones
C15_ContinueOnFailure == LoopOver => attempted = LoopItems

\* delete-release over two matched charts: the deletion of the first release
\* failed and the second release was deleted all the same
C15_Witness ==
    /\ impl = "root" /\ cmd = "changed" /\ pc = "done"
    /\ Len(changedCharts) = 2 /\ Len(attempted) = 2
    /\ ReleaseName(changedCharts[1]) \in hostReleases
    /\ ReleaseName(changedCharts[2]) \notin hostReleases
    /\ failed

\* C16: a DeleteChanged run cleans the index in one cycle: at most one switch
\* to the pages branch, one load, one write and one commit of index.yaml, and
\* the removeVersions call receives every matched chart
C16_OneCycle ==
    cmd = "changed" =>
        /\ switches <= 1 /\ loads <= 1 /\ writes <= 1 /\ Len(commits) <= 1
        /\ lastOp = "versions" => lastCharts = changedCharts

-----------------------------------------------------------------------------
(* Properties of the version gate (SpecMatch) *)

HasPrefix(text, prefix) == Len(text) >= Len(prefix) /\ SubSeq(text, 1, Len(prefix)) = prefix

HasSuffix(text, suffix) ==
    Len(text) >= Len(suffix) /\ Drop(text, Len(text) - Len(suffix)) = suffix

Contains(text, part) == \E k \in 0..Len(text) : HasPrefix(Drop(text, k), part)

\* the versions each pattern of MatchPatterns stands for, stated on the text
Denotes(pattern, text) ==
    LET dev == <<"0", ".", "0", ".", "0", "-", "d", "e", "v">>
    IN  CASE pattern = DevPattern -> text = dev
          [] pattern = AnyPattern -> TRUE
          [] pattern = PrefixPattern -> HasPrefix(text, <<"0", ".", "0", ".", "0", "-">>)
          [] pattern = SuffixPattern -> HasSuffix(text, <<"-", "d", "e", "v">>)
          [] pattern = UnanchoredPattern -> Contains(text, dev)
          [] pattern = UnescapedPattern ->
                /\ Len(text) = Len(dev)
                /\ \A k \in DOMAIN dev : dev[k] = "." \/ text[k] = dev[k]
          [] pattern = OpenPattern -> HasPrefix(text, dev)
          [] OTHER -> FALSE

\* C19: versionMatchesPattern(V, P) is true exactly when the regex P matches V
\* under the engine's (unanchored) match semantics: ("0.0.0-dev", "^0\.0\.0-dev$")
\* is true, ("1.2.3", "^0\.0\.0-dev$") is false; a pattern that does not compile
\* yields an error and never a match
C19_VersionGate ==
    matched # Null =>
        /\ matched.err = (matched.pattern \in {BadPattern, StarPattern})
        /\ matched.err => ~matched.matches
        /\ ~matched.err => (matched.matches = Denotes(matched.pattern, Chars(matched.version)))
        /\ (matched.version = DevVersion /\ matched.pattern = DevPattern) => matched.matches
        /\ (matched.version = "1.2.3" /\ matched.pattern = DevPattern) => ~matched.matches

\* the gate has answered for a version that only contains a match of an
\* unanchored pattern
C19_Witness ==
    /\ matched # Null
    /\ matched.pattern = UnanchoredPattern /\ matched.version = "10.0.0-dev"
    /\ matched.matches /\ ~matched.err

-----------------------------------------------------------------------------
(* Properties of the delete-all confirmation (Spec) *)

\* C20: in a delete-all run without --force whose prompt was not answered with
\* y or Y, no release or tag deletion is requested and the index and the
\* branches are not touched; when the prompt got an answer other than y or Y,
\* the run has ended with success once the releases are listed; with --force
\* the run goes on to the deletions without an answer
C20_Confirmation ==
    (DeleteAll \/ ShellDeleteAll) =>
        /\ (~force /\ answer \notin {"y", "Y"}) =>
              /\ apiLog = <<>> /\ attempted = <<>>
              /\ ~gitUsed /\ switches = 0 /\ writes = 0 /\ commits = <<>>
              /\ pagesFile = pagesCommitted /\ remotePages = pagesCommitted
              /\ (releases # <<>> /\ answer # EndOfInput) => (pc = "done" /\ result = "ok")
        /\ (force /\ releases # <<>>) => (answer = "" /\ (pc = "delete" \/ attempted # <<>>))

\* a delete-all run over listed releases was cancelled by the answer n
C20_Witness ==
    /\ DeleteAll \/ ShellDeleteAll
    /\ ~force /\ answer = "n" /\ releases # <<>>
    /\ pc = "done" /\ result = "ok" /\ hostReleases # {} /\ apiLog = <<>>

\* the tag deletions requested so far
TagDeletions == {apiLog[k][2] : k \in {j \in DOMAIN apiLog : apiLog[j][1] = "DeleteTag"}}

\* C21: delete-all deletes a tag only when --with-tags is set and the release
\* has a non-empty tag name: every tag deletion requested is for the tag of a
\* listed release, none is requested without the flag, and without
\* --clean-index no branch is switched and index.yaml is not written or committed
C21_TagsOnRequest ==
    (DeleteAll \/ ShellDeleteAll) =>
        /\ \A t \in TagDeletions :
              /\ withTags /\ t # <<>>
              /\ \E k \in DOMAIN releases : k < next /\ TagName(releases[k]) = t
        /\ ~withTags => TagDeletions = {}
        /\ ~cleanIndex =>
              /\ ~gitUsed /\ switches = 0 /\ loads = 0 /\ writes = 0 /\ commits = <<>>
              /\ pagesFile = pagesCommitted /\ remotePages = pagesCommitted

\* delete-all --with-tags over a tagged release and a release without a tag
\* name: both releases were deleted, one tag deletion was requested
C21_Witness ==
    /\ DeleteAll /\ withTags /\ pc = "done"
    /\ Len(attempted) = 2 /\ DraftRelease \in {attempted[1], attempted[2]}
    /\ Cardinality(TagDeletions) = 1

\* C22: cleanup --all touches only the index: no change detection runs (no tag
\* fetch, no baseline, no diff, no candidate directory, no chart), no release
\* or tag deletion is attempted or requested, and a run that ended with success
\* wiped the loaded index through one switch to the pages branch
C22_AllOnlyIndex ==
    CleanAll =>
        /\ pc \notin {"latest_tag", "current_branch", "changed_files", "group", "scan",
                      "delete", "list_releases"}
        /\ tagsFetched = "none" /\ sinceCommit = ""
        /\ pending = {} /\ changedCharts = <<>> /\ releases = <<>>
        /\ apiLog = <<>> /\ attempted = <<>>
        /\ (pc = "done" /\ result = "ok") =>
              /\ lastOp = "all" /\ switches = 1 /\ writes = 1
              /\ indexFile = RemoveAll(before)
              /\ pagesFile = Marshal(indexFile)

\* cleanup --all with a pattern that does not compile and releases on the host:
\* the index was wiped and committed, the releases are still there
C22_Witness ==
    /\ CleanAll /\ pc = "done" /\ result = "ok"
    /\ versionPattern = BadPattern /\ hostReleases # {}
    /\ before.entries # NoEntries /\ pagesFile.doc.entries = NoEntries
    /\ Len(commits) = 1

-----------------------------------------------------------------------------
(* Properties of the result of removeVersions (SpecDoc) *)

\* the versions the chart list names for a chart name
TargetVersions(charts, n) == {charts[k].version : k \in {j \in DOMAIN charts : charts[j].name = n}}

\* the list stored for a name; a deleted key stores nothing
StoredList(doc, n) == IF n \in DOMAIN doc.entries THEN doc.entries[n] ELSE <<>>

UnknownTarget(doc, chart) ==
    \/ chart.name \notin DOMAIN doc.entries
    \/ \A k \in DOMAIN doc.entries[chart.name] :
          doc.entries[chart.name][k].version # chart.version

\* C24: removeVersions is a no-op for unknown targets: when no chart of the
\* input names an entry of the index, the entries map after the call equals the
\* entries map before it
C24_NoOpUnknown ==
    (/\ pc = "doc" /\ lastOp = "versions"
     /\ \A k \in DOMAIN lastCharts : UnknownTarget(before, lastCharts[k])) =>
        indexFile.entries = before.entries

\* the step loads, writes or commits index.yaml
TouchesIndex ==
    \/ loads' # loads
    \/ writes' # writes \/ pagesFile' # pagesFile
    \/ commits' # commits \/ pagesCommitted' # pagesCommitted

\* C25: the index is touched only on the pages branch: every step of the Go
\* programs that loads, writes or commits index.yaml is taken while the pages
\* branch is checked out, and as long as the pages branch was not checked out
\* (absent on the remote, fetch or checkout failed) nothing was loaded, written
\* or committed
C25_OnlyOnPagesBranch ==
    [][/\ TouchesIndex => head = PagesBranch
       /\ ~remoteHasPages => switches' = 0
       /\ switches' = 0 => /\ loads' = 0 /\ writes' = 0 /\ commits' = <<>>
                           /\ pagesFile' = pagesCommitted']_vars

\* a cleanup whose fetch or checkout of the existing pages branch failed: the
\* run is over, the index file is there and was never loaded
C25_Witness ==
    /\ impl = "releaser" /\ pc = "done" /\ gitUsed /\ remoteHasPages
    /\ OriginalBranch # "" /\ switches = 0 /\ pagesFile # NoFile
    /\ loads = 0 /\ writes = 0 /\ result = "error"

\* C26: restore from a detached HEAD: when the index wrapper of chart-releaser
\* was entered with HEAD detached and has returned, and the restoring checkout
\* did not fail, the commit checked out is the one checked out at entry
C26_DetachedRestored ==
    (/\ impl = "releaser" /\ pc \in {"wrapper_return", "done"}
     /\ entryHead = Detached /\ restored # "failed") => head = entryHead

\* C27: the shell wrapper restores the branch: once delete-release.sh has checked
\* out the pages branch from a named branch whose name it saved, it is back on
\* that branch between two charts and when the script ends, unless the
\* restoring checkout failed
C27_ShellRestores ==
    (/\ impl = "shell" /\ pc \in {"delete", "done"} /\ switches > 0
     /\ entryHead \notin {NoBranch, Detached} /\ OriginalBranch = entryHead
     /\ restored # "failed") => head = entryHead

-----------------------------------------------------------------------------
(* Properties of the paginated listing (SpecList) *)

\* C28: paginated listing: GetAllReleases requests the pages in order from the
\* first, requests page n+1 only when the response of page n named it, holds
\* the releases of the pages answered so far in page order, stops at the
\* response that names no next page and then returns every release of the
\* host in listing order, and on an error of any page returns the error and
\* no list
C28_Pagination ==
    LET n == Len(requested)
        answered == IF returned.err THEN n - 1 ELSE n
    IN  /\ \A k \in 1..n : requested[k] = k
        /\ \A k \in 2..n : NextPage(hostList, k - 1) = k
        /\ allReleases = SubSeq(hostList, 1,
                                IF answered * PerPage < Len(hostList)
                                THEN answered * PerPage ELSE Len(hostList))
        /\ (pc = "list_page" /\ n > 0) => NextPage(hostList, n) # 0
        /\ (pc = "list_return" /\ ~returned.err) =>
              /\ NextPage(hostList, n) = 0
              /\ returned.releases = hostList
        /\ (pc = "list_return" /\ returned.err) => returned.releases = <<>>

\* three pages were requested and answered, and the five releases of the host
\* came back in listing order
C28_Witness ==
    /\ pc = "list_return" /\ ~returned.err /\ requested = <<1, 2, 3>>
    /\ Len(hostList) = 5 /\ returned.releases = hostList /\ hostList[1] > hostList[2]

-----------------------------------------------------------------------------
(* GHClient.DeleteReleaseAndTag call by call (SpecTag) *)

TagVersions == {DevVersion, "1.0.0", "1.2.3", "1.404.0"}

\* fmt.Sprintf("%s-%s", chart.Name, chart.Version) of DeleteChangedCharts
TagChoices == {<<n, "-", v>> : n \in Names, v \in TagVersions}

\* the failures of GetReleaseByTag other than 404: a status of the host, or no
\* response at all
OtherFailures == {"401", "403", "500", "timeout"}

\* what the host can answer to GetReleaseByTag for the tag
TagAnswers(host, t) == (IF t \in host THEN {"found"} ELSE {"404"}) \cup OtherFailures

\* err.Error() of a failed GetReleaseByTag: the method, the URL of the request,
\* which ends with the tag, and the status or the transport failure
ErrorText(t, failure) == <<"GET", "/releases/tags/">> \o t \o <<failure>>

\* the characters of a text of words
RECURSIVE Flatten(_)
Flatten(words) ==
    IF words = <<>> THEN <<>> ELSE Chars(Head(words)) \o <<" ">> \o Flatten(Tail(words))

\* isNotFoundError: strings.Contains(err.Error(), "404")
isNotFoundError(text) == Contains(Flatten(text), Chars("404"))

InitTag ==
    /\ pc = "by_tag"
    /\ impl = "releaser" /\ cmd = "changed"
    /\ force = FALSE /\ withTags = FALSE /\ cleanIndex = FALSE /\ answer = ""
    /\ token = "ghp_token" /\ parentTag = NoTag
    /\ sinceCommit = "" /\ tagsFetched = "none" /\ pulled = "none" /\ gitUsed = FALSE
    /\ chartDir = <<"charts">> /\ changedFiles = <<>>
    /\ versionPattern = AnyPattern
    /\ manifests = [d \in {DirA, DirB} |-> Missing]
    /\ delTag \in TagChoices
    /\ hostReleases \in {{}, {delTag}}
    /\ apiLog = <<>> /\ attempted = <<>>
    /\ head = BaseBranch /\ entryHead = NoBranch /\ OriginalBranch = "" /\ restored = "none"
    /\ remoteHasPages = TRUE
    /\ pagesFile = NoFile /\ pagesCommitted = NoFile /\ remotePages = NoFile
    /\ pending = {} /\ changedCharts = <<>> /\ releases = <<>> /\ next = 1
    /\ indexFile = Null /\ removedCharts = <<>> /\ ret = "ok"
    /\ commits = <<>> /\ writes = 0 /\ switches = 0 /\ loads = 0
    /\ failed = FALSE /\ result = "running"
    /\ before = Null /\ lastOp = "none" /\ lastCharts = <<>> /\ reps = 0 /\ steps = 0
    /\ doc0 = Null /\ matched = Null
    /\ NoListing
    /\ tagAnswer = "none" /\ tagErr = <<>> /\ calls = <<>> /\ tagRet = "none"

\* DeleteReleaseByTag up to its return or its call of DeleteRelease; on an error
\* DeleteReleaseAndTag returns it at once
CallDeleteReleaseByTag ==
    /\ pc = "by_tag"
    /\ calls' = Append(calls, "DeleteReleaseByTag")
    /\ apiLog' = Append(apiLog, <<"GetReleaseByTag", delTag>>)
    /\ \E a \in TagAnswers(hostReleases, delTag) :
         /\ tagAnswer' = a
         /\ IF a = "found"
            THEN /\ pc' = "delete_release"
                 /\ UNCHANGED <<tagErr, tagRet, failed>>
            ELSE /\ tagErr' = ErrorText(delTag, a)
                 /\ IF isNotFoundError(tagErr')
                    THEN pc' = "delete_tag" /\ UNCHANGED <<tagRet, failed>>
                    ELSE pc' = "tag_return" /\ tagRet' = "error" /\ failed' = TRUE
    /\ UNCHANGED <<inputV, matched, listV, delTag, baseV, docV, hostReleases, attempted, gitV, pagesV,
                   scanV, memV, result>>

\* DeleteRelease: the API call is commented out, the release stays
CallDeleteRelease ==
    /\ pc = "delete_release"
    /\ calls' = Append(calls, "DeleteRelease")
    /\ LET st == DeleteRelease([host |-> hostReleases, log |-> apiLog], delTag)
       IN  hostReleases' = st.host /\ apiLog' = st.log
    /\ pc' = "delete_tag"
    /\ UNCHANGED <<inputV, matched, listV, delTag, tagAnswer, tagErr, tagRet, baseV, docV, attempted,
                   gitV, pagesV, scanV, memV, failed, result>>

\* DeleteTag, then the return of DeleteReleaseAndTag
CallDeleteTag ==
    /\ pc = "delete_tag"
    /\ calls' = Append(calls, "DeleteTag")
    /\ LET st == DeleteTag([host |-> hostReleases, log |-> apiLog], delTag)
       IN  hostReleases' = st.host /\ apiLog' = st.log
    /\ tagRet' = "ok"
    /\ pc' = "tag_return"
    /\ UNCHANGED <<inputV, matched, listV, delTag, tagAnswer, tagErr, baseV, docV, attempted,
                   gitV, pagesV, scanV, memV, failed, result>>

NextTag == CallDeleteReleaseByTag \/ CallDeleteRelease \/ CallDeleteTag

SpecTag == InitTag /\ [][NextTag]_vars

\* C29: release not found is not a failure: after a 404 answer to the lookup
\* DeleteReleaseByTag calls no DeleteRelease and DeleteReleaseAndTag goes on to
\* DeleteTag and returns success; after any other failure of the lookup
\* DeleteReleaseAndTag has returned the error and DeleteTag was not called
C29_NotFoundIsNoFailure ==
    /\ tagAnswer = "404" =>
          /\ "DeleteRelease" \notin {calls[k] : k \in DOMAIN calls}
          /\ pc \in {"delete_tag", "tag_return"}
          /\ pc = "tag_return" => /\ tagRet = "ok"
                                  /\ calls = <<"DeleteReleaseByTag", "DeleteTag">>
    /\ tagAnswer \in OtherFailures =>
          /\ pc = "tag_return" /\ tagRet = "error"
          /\ calls = <<"DeleteReleaseByTag">>

-----------------------------------------------------------------------------
(* Properties of the chart scan (Spec) *)

\* the ChartInfo of every candidate directory that holds a readable Chart.yaml
ReadableCharts ==
    {ChartInfo(d, ManifestAt(d).name, ManifestAt(d).version) :
        d \in {c \in ChartDirs(changedFiles, chartDir) : ManifestAt(c).kind = "chart"}}

\* getChangedCharts has returned its list
ScanReturned ==
    \/ pc = "scan" /\ pending = {}
    \/ pc \in {"delete", "prepare", "pull", "check_index", "load", "clean", "write", "commit",
               "restore", "wrapper_return"}

\* C30: getChangedCharts is deterministic in its outcome: whatever the order in
\* which the candidate directories are visited, the scan ends with the error
\* when a readable manifest has a version that does not match, and otherwise
\* returns each readable chart once and no other; a directory without a
\* Chart.yaml or with an unreadable one is skipped and is never the cause of an
\* error (a run without a mismatch ends with an error only after a failed
\* external call or an error of the index wrapper)
C30_ScanDeterministic ==
    (cmd = "changed" /\ impl \in {"releaser", "root"}) =>
        /\ {changedCharts[k] : k \in DOMAIN changedCharts} \subseteq ReadableCharts
        /\ \A j, k \in DOMAIN changedCharts : changedCharts[j] = changedCharts[k] => j = k
        /\ HasMismatch => /\ ~ScanReturned
                          /\ pc = "done" => result = "error"
        /\ ~HasMismatch =>
              /\ ScanReturned => {changedCharts[k] : k \in DOMAIN changedCharts} = ReadableCharts
              /\ (pc = "done" /\ result = "error") => (failed \/ ret = "error")

\* two readable charts whose versions match, visited in the order b, a
C30_Witness ==
    /\ cmd = "changed" /\ impl = "releaser" /\ pc = "delete" /\ ~HasMismatch
    /\ Len(changedCharts) = 2 /\ changedCharts[1].path = DirB /\ changedCharts[2].path = DirA
    /\ versionPattern = DevPattern

====
